---- MODULE Spec2Model ----
(***************************************************************************)
(* Model of the key-addressed Merkle AVL tree of merk: src/src/node.js     *)
(* (Node, lines 256-527) and src/src/tree.js (Tree, lines 164-319).        *)
(*                                                                         *)
(* Keys are the integers 1..MaxKey, ordered as the JavaScript strings they *)
(* stand for; NoKey stands for the empty string '' that the code uses as   *)
(* the "no link" sentinel.  Digests are modelled as nested tuples, so that *)
(* sha256 is injective: the all-zero digest is the empty tuple.            *)
(***************************************************************************)
EXTENDS Integers, Sequences, FiniteSets, TLC

\* ---------------------------------------------------------------- bounds
MaxKey == 5       \* keys of the one-caller specification
UpdMaxKey == 6    \* keys of the build, delete, update scenario
ConcMaxKey == 2   \* keys of the concurrent specification
IdMaxKey == 3     \* keys of the ID-addressed specification
MaxId == 3        \* node IDs the ID-addressed specification hands out
MaxVal == 2       \* values that the key UpdKey is put with
UpdKey == 2       \* the other keys are always put with value 1

Keys == 1..(IF MaxKey >= UpdMaxKey THEN MaxKey ELSE UpdMaxKey)
Vals == 1..MaxVal
\* the values a caller puts key k with: one caller puts UpdKey with every
\* value, concurrent callers with the two extreme ones
ValsOf(k, V) == IF k = UpdKey THEN V ELSE {1}
NoKey == 0
Procs == {"p1", "p2"}
SeqProc == "p1"

\* ---------------------------------------------------------------- digests
nullHash == <<>>

\* sha256(VarString.encode(key) ++ VarString.encode(value))
KVDigest(k, v) == <<k, v>>

\* sha256(leftHash ++ rightHash ++ kvHash)
NodeDigest(lh, rh, kvh) == <<lh, rh, kvh>>

\* ---------------------------------------------------------------- values
Null == [null |-> TRUE]
NoRec == [absent |-> TRUE]
Untouched == [untouched |-> TRUE]
NoErr == "none"

\* the defaults object has no value property
defaults ==
  [ key |-> NoKey, hash |-> nullHash, kvHash |-> nullHash,
    leftHeight |-> 0, rightHeight |-> 0,
    leftKey |-> NoKey, rightKey |-> NoKey, parentKey |-> NoKey ]

nullNode == defaults

Max(a, b) == IF a >= b THEN a ELSE b
Abs(a) == IF a < 0 THEN -a ELSE a

\* Node.height(); nullNode overrides it with () => 1
height(n) == IF n = nullNode THEN 1 ELSE Max(n.leftHeight, n.rightHeight) + 1

balance(n) == n.rightHeight - n.leftHeight

isInnerNode(n) == n.leftKey # NoKey \/ n.rightKey # NoKey
isLeafNode(n) == ~isInnerNode(n)

\* the hash of an operand of calculateHash: null/undefined gives nullHash
HashOrNull(c) == IF c = Null THEN nullHash ELSE c.hash

calculateHash(n, leftChild, rightChild) ==
  [n EXCEPT !.hash = NodeDigest(HashOrNull(leftChild), HashOrNull(rightChild), n.kvHash)]

calculateKVHash(n) == [n EXCEPT !.kvHash = KVDigest(n.key, n.value)]

\* new Node({ key, value }): kvHash and hash are nullHash, so both are computed
NewNode(k, v) ==
  calculateHash(calculateKVHash(
    [ key |-> k, value |-> v, hash |-> defaults.hash, kvHash |-> defaults.kvHash,
      leftHeight |-> defaults.leftHeight, rightHeight |-> defaults.rightHeight,
      leftKey |-> defaults.leftKey, rightKey |-> defaults.rightKey,
      parentKey |-> defaults.parentKey ]), Null, Null)

\* codec.encode drops the key (it is the store key), codec.decode + getNode
\* put it back; heights are UInt8
encode(n) ==
  [ hash |-> n.hash, kvHash |-> n.kvHash,
    leftHeight |-> n.leftHeight % 256, rightHeight |-> n.rightHeight % 256,
    value |-> n.value,
    leftKey |-> n.leftKey, rightKey |-> n.rightKey, parentKey |-> n.parentKey ]

decode(k, b) ==
  [ key |-> k, value |-> b.value, hash |-> b.hash, kvHash |-> b.kvHash,
    leftHeight |-> b.leftHeight, rightHeight |-> b.rightHeight,
    leftKey |-> b.leftKey, rightKey |-> b.rightKey, parentKey |-> b.parentKey ]

\* ---------------------------------------------------------------- transaction
\* A transaction is the store it was opened on plus its staged writes; a read
\* sees the transaction's own writes first.
EmptyWrites == [k \in Keys |-> Untouched]
createTx(store) == [base |-> store, writes |-> EmptyWrites]

TxGet(tx, k) == IF tx.writes[k] # Untouched THEN tx.writes[k] ELSE tx.base[k]
TxPut(tx, k, b) == [tx EXCEPT !.writes[k] = b]
TxDel(tx, k) == [tx EXCEPT !.writes[k] = NoRec]
TxApply(store, writes) ==
  [k \in Keys |-> IF writes[k] # Untouched THEN writes[k] ELSE store[k]]

putNode(tx, n) == TxPut(tx, n.key, encode(n))

\* mutant: the record of a deleted node is left in the store
delNode_Keep(tx, n) == tx

delNode(tx, n) == TxDel(tx, n.key)

\* getNode throws the store's notFound error for a key without a record
Missing(tx, k) == k # NoKey /\ TxGet(tx, k) = NoRec
getNode(tx, k) == IF k = NoKey THEN Null ELSE decode(k, TxGet(tx, k))

ChildKey(n, left) == IF left THEN n.leftKey ELSE n.rightKey

\* ---------------------------------------------------------------- Node
\* Every Node method below returns a record:
\*   tx    the transaction after the writes the call staged,
\*   self  the receiver object (this) as the call left it,
\*   child the object passed as child, as the call left it (setChild only),
\*   ret   the returned node, or Null,
\*   err   NoErr, or the error the call threw (then ret is meaningless).
Return(tx, self, child, ret) ==
  [tx |-> tx, self |-> self, child |-> child, ret |-> ret, err |-> NoErr]
Throw(tx, self, e) ==
  [tx |-> tx, self |-> self, child |-> Null, ret |-> Null, err |-> e]

\* mutant: a balance of two is tolerated
needsRebalance_Loose(n) == Abs(balance(n)) > 2

\* `rebalance && Math.abs(this.balance()) > 1` in setChild
needsRebalance(n) == Abs(balance(n)) > 1

\* mutant: the child handed to setChild is not saved
saveChild_Skip(tx, c, child) == tx

\* `await child.save(tx)` in setChild; nullNode.save is a no-op
saveChild(tx, c, child) == IF child # Null THEN putNode(tx, c) ELSE tx

\* mutant: the comparison is reversed
descendLeft_Reversed(key, n) == key > n.key

\* `let left = key < this.key` in put and delete
descendLeft(key, n) == key < n.key

\* the receiver after the two assignments of setChild: the child's key and
\* the child's height() on the given side
assignChild(this, left, c) ==
  IF left
  THEN [this EXCEPT !.leftKey = c.key, !.leftHeight = height(c)]
  ELSE [this EXCEPT !.rightKey = c.key, !.rightHeight = height(c)]

\* mutant: the heavy child is never rotated first
isDouble_Never(left, child) == FALSE

\* `let double = left ? childRightHeavy : childLeftHeavy` in rebalance
isDouble(left, child) == IF left THEN balance(child) > 0 ELSE balance(child) < 0

RECURSIVE setChild(_, _, _, _, _), rebalance(_, _), rotate(_, _, _)

setChild(tx, this, left, child, doRebalance) ==
  LET c == IF child # Null THEN [child EXCEPT !.parentKey = this.key] ELSE nullNode
      t1 == assignChild(this, left, c)
      otherKey == ChildKey(t1, ~left)
  IN IF doRebalance /\ needsRebalance(t1)
     THEN LET r == rebalance(tx, t1)
          IN [r EXCEPT !.child = IF child # Null THEN c ELSE Null]
     ELSE IF Missing(tx, otherKey)
     THEN [Throw(tx, t1, "NotFoundError") EXCEPT !.child = IF child # Null THEN c ELSE Null]
     ELSE LET other == getNode(tx, otherKey)
              leftChild == IF left THEN c ELSE other
              rightChild == IF left THEN other ELSE c
              t2 == calculateHash(t1, leftChild, rightChild)
              tx1 == putNode(tx, t2)
              tx2 == saveChild(tx1, c, child)
          IN Return(tx2, t2, IF child # Null THEN c ELSE Null, t2)

rebalance(tx, this) ==
  LET left == balance(this) < 0
      childKey == ChildKey(this, left)
  IN IF Missing(tx, childKey) THEN Throw(tx, this, "NotFoundError")
     ELSE IF childKey = NoKey THEN Throw(tx, this, "TypeError")
     ELSE
       LET child == getNode(tx, childKey)
       IN IF ~isDouble(left, child) THEN rotate(tx, this, left)
          ELSE LET r1 == rotate(tx, child, ~left)
               IN IF r1.err # NoErr THEN Throw(r1.tx, this, r1.err)
                  ELSE LET r2 == setChild(r1.tx, this, left, r1.ret, FALSE)
                       IN IF r2.err # NoErr THEN r2
                          ELSE rotate(r2.tx, r2.self, left)

rotate(tx, this, left) ==
  LET childKey == ChildKey(this, left)
  IN IF Missing(tx, childKey) THEN Throw(tx, this, "NotFoundError")
     ELSE IF childKey = NoKey THEN Throw(tx, this, "TypeError")
     ELSE
       LET child == getNode(tx, childKey)
           grandKey == ChildKey(child, ~left)
       IN IF Missing(tx, grandKey) THEN Throw(tx, this, "NotFoundError")
          ELSE
            LET grandChild == getNode(tx, grandKey)
                r1 == setChild(tx, this, left, grandChild, FALSE)
            IN IF r1.err # NoErr THEN r1
               ELSE LET child1 == [child EXCEPT !.parentKey = NoKey]
                        r2 == setChild(r1.tx, child1, ~left, r1.self, FALSE)
                    IN IF r2.err # NoErr THEN Throw(r2.tx, r2.child, r2.err)
                       ELSE Return(r2.tx, r2.child, Null, r2.self)

\* `if (node.key === this.key)` in put
sameKey(node, this) == node.key = this.key

RECURSIVE Node_put(_, _, _)
Node_put(tx, this, node) ==
  IF sameKey(node, this)
  THEN LET t == calculateKVHash([this EXCEPT !.value = node.value])
       IN Return(putNode(tx, t), t, Null, t)
  ELSE
    LET left == descendLeft(node.key, this)
        childKey == ChildKey(this, left)
    IN IF Missing(tx, childKey) THEN Throw(tx, this, "NotFoundError")
       ELSE IF childKey = NoKey THEN setChild(tx, this, left, node, TRUE)
       ELSE LET r == Node_put(tx, getNode(tx, childKey), node)
            IN IF r.err # NoErr THEN Throw(r.tx, this, r.err)
               ELSE setChild(r.tx, this, left, r.ret, TRUE)

\* successor.put(tx, otherNode): the arguments are swapped against
\* put(node, tx).  node.key is undefined, so the key test fails and
\* left = (undefined < this.key) = false; this.child(otherNode, false) calls
\* otherNode.get when this.rightKey is set (not a function), and otherwise
\* setChild(otherNode, false, tx) calls tx.height() (not a function).
Node_put_swapped(tx, this, otherNode) == Throw(tx, this, "TypeError")

\* let left = this.leftHeight > this.rightHeight: the side of the child that
\* Node.delete promotes
promoteLeft(this) == this.leftHeight > this.rightHeight

RECURSIVE Node_delete(_, _, _)
Node_delete(tx, this, key) ==
  IF key = this.key
  THEN IF isLeafNode(this)
       THEN Return(delNode(tx, this), this, Null, Null)
       ELSE
         LET left == promoteLeft(this)
             succKey == ChildKey(this, left)
             otherKey == ChildKey(this, ~left)
         IN IF Missing(tx, succKey) \/ Missing(tx, otherKey)
            THEN Throw(tx, this, "NotFoundError")
            ELSE
              LET successor == getNode(tx, succKey)
                  otherNode == getNode(tx, otherKey)
              IN IF otherNode # Null
                 THEN IF successor = Null THEN Throw(tx, this, "TypeError")
                      ELSE LET r == Node_put_swapped(tx, successor, otherNode)
                           IN Throw(r.tx, this, r.err)
                 ELSE IF successor = Null THEN Throw(tx, this, "TypeError")
                 ELSE LET s1 == [successor EXCEPT !.parentKey = this.parentKey]
                      IN Return(delNode(tx, this), this, Null, s1)
  ELSE
    LET left == descendLeft(key, this)
        childKey == ChildKey(this, left)
    IN IF Missing(tx, childKey) THEN Throw(tx, this, "NotFoundError")
       ELSE IF childKey = NoKey THEN Throw(tx, this, "KeyNotFound")
       ELSE LET r == Node_delete(tx, getNode(tx, childKey), key)
            IN IF r.err # NoErr THEN Throw(r.tx, this, r.err)
               ELSE setChild(r.tx, this, left, r.ret, TRUE)

\* ---------------------------------------------------------------- Tree
VARIABLES
  db,        \* the backing store's node records: key -> encoded node or NoRec
  dbRoot,    \* the backing store's ':root' entry (NoKey when absent)
  rootNode,  \* Tree._rootNode, the in-memory root object (or Null)
  lock,      \* Tree.lock is a pending promise (TRUE) or null (FALSE)
  proc,      \* the callers: position in Tree.put / Tree.del / Tree.get and locals;
             \* old is history: the root object when the caller's body began
  last,      \* history: for each key, <<v>> for the value of the last committed
             \* put, <<>> when never put or when a delete was committed last
  prf,       \* a client that verifies a proof tree: the root hash it trusts,
             \* the proof it received, its query and the result of verify
  stk,       \* a run of the stack verifier: its stack, the operators it has
             \* executed and its outcome
  bat,       \* a batch of operations handed to the batch operator, the tree
             \* it is applied to and the tree that results
  mk,        \* a merk object: its properties, the Mutations it carries, the
             \* db calls of its last commit and, as history, the object it
             \* was at that commit and whether the db is still as
             \* Merk(db) found it, empty
  ids        \* ID-addressed mode: the idCounter of the Node factory, the
             \* persisted ':idCounter', what the open transaction stages,
             \* the ID of each persisted node and, as history, the IDs
             \* assigned (ever, and by the open tree) and the IDs of every
             \* record ever persisted

treeVars == <<db, dbRoot, rootNode, lock, proc, last>>
proofVars == <<prf, stk, bat, mk, ids>>
vars == <<db, dbRoot, rootNode, lock, proc, last, prf, stk, bat, mk, ids>>

\* A merk object is a chain of nested objects: the root, root.foo, root.foo.y,
\* ...; besides the nested object, an object has the non-object property x
\* or not.  A path is the sequence of property names that leads from the root
\* to an object.
MaxDepth == 2     \* nesting depth of the objects below the root
Names == <<"foo", "y", "A", "B">>
MPaths == { SubSeq(Names, 1, d) : d \in 0..MaxDepth }

\* a property that is not there / symbols.delete / an object without its
\* object-valued properties: b = 0 is {}, b = 1 is {x: 5}
Gone == [ kind |-> "none", base |-> 0 ]
DeleteSym == [ kind |-> "delete", base |-> 0 ]
Obj(b) == [ kind |-> "obj", base |-> b ]
Bases == {0, 1}

\* Merk(db): an empty root object and empty Mutations
NoMerk ==
  [ obj |-> [p \in MPaths |-> IF p = <<>> THEN Obj(0) ELSE Gone],
    before |-> [p \in MPaths |-> Gone], order |-> <<>>,
    after |-> [p \in MPaths |-> Gone],
    log |-> {}, fresh |-> TRUE,
    committed |-> [p \in MPaths |-> IF p = <<>> THEN Obj(0) ELSE Gone],
    err |-> NoErr ]

\* ID-addressed mode before the first put: `idCounter = 1`, no ':idCounter'
\* in the store (0), nothing staged, no node has an ID
NoIds ==
  [ idCounter |-> 1, dbCounter |-> 0, staged |-> 0, newId |-> 0,
    idOf |-> [k \in Keys |-> 0], loaded |-> TRUE,
    assigned |-> {}, mine |-> {}, persisted |-> {} ]

\* no proof received yet / no verifier run started
NoProof ==
  [ phase |-> "none", expected |-> nullHash, data |-> <<>>, proof |-> Null,
    from |-> NoKey, to |-> NoKey, edits |-> 0, tampered |-> FALSE,
    result |-> Null ]
NoBatch == [ phase |-> "none", tree |-> Null, batch |-> <<>>, result |-> Null ]
NoRun == [ phase |-> "none", mode |-> "none", tree |-> Null, batch |-> <<>>,
           todo |-> <<>>, stack |-> <<>>, ops |-> <<>>, ended |-> FALSE,
           outcome |-> "none", hash |-> nullHash ]

Idle ==
  [ pc |-> "idle", op |-> "none", key |-> NoKey, val |-> <<>>, woken |-> FALSE,
    writes |-> EmptyWrites, succ |-> Null, old |-> Null, res |-> "none", got |-> <<>> ]

Init ==
  /\ db = [k \in Keys |-> NoRec]
  /\ dbRoot = NoKey
  /\ rootNode = Null
  /\ lock = FALSE
  /\ proc = [p \in Procs |-> Idle]
  /\ last = [k \in Keys |-> <<>>]
  /\ prf = NoProof
  /\ stk = NoRun
  /\ bat = NoBatch
  /\ mk = NoMerk
  /\ ids = NoIds

\* a caller invokes tree.put(key, value), tree.del(key) or tree.get(key) and
\* suspends at `await this.initialize`
Call(p, K, V) ==
  /\ proc[p].pc = "idle"
  /\ \E o \in {"put", "del", "get"}, k \in K : \E v \in ValsOf(k, V) :
       /\ o # "put" => v = 1
       /\ proc' = [proc EXCEPT ![p] =
                     [Idle EXCEPT !.pc = "init", !.op = o, !.key = k,
                                  !.val = IF o = "put" THEN <<v>> ELSE <<>>]]
  /\ UNCHANGED <<db, dbRoot, rootNode, lock, last, prf, stk, bat, mk, ids>>

\* mutant: the lock is taken without testing it
acquireLock_NoTest(p) ==
  /\ lock' = TRUE
  /\ proc' = [proc EXCEPT ![p].pc = "locked", ![p].woken = FALSE]

\* Tree.acquireLock up to its first suspension: take the lock when it is
\* null, otherwise await the pending promise
acquireLock(p) ==
  IF ~lock
  THEN /\ lock' = TRUE
       /\ proc' = [proc EXCEPT ![p].pc = "locked", ![p].woken = FALSE]
  ELSE /\ lock' = lock
       /\ proc' = [proc EXCEPT ![p].pc = "wait", ![p].woken = FALSE]

\* Tree.put after `await this.initialize`
Tree_put(p) ==
  /\ proc[p].pc = "init" /\ proc[p].op = "put"
  /\ acquireLock(p)
  /\ UNCHANGED <<db, dbRoot, rootNode, last, prf, stk, bat, mk, ids>>

\* Tree.del after `await this.initialize`: the empty-tree test, then acquireLock
Tree_del(p) ==
  /\ proc[p].pc = "init" /\ proc[p].op = "del"
  /\ IF rootNode = Null
     THEN /\ proc' = [proc EXCEPT ![p].pc = "done", ![p].res = "TreeIsEmpty"]
          /\ lock' = lock
     ELSE acquireLock(p)
  /\ UNCHANGED <<db, dbRoot, rootNode, last, prf, stk, bat, mk, ids>>

\* Tree.get after `await this.initialize`: Node.get(key) reads the store, not
\* a transaction
Tree_get(p) ==
  /\ proc[p].pc = "init" /\ proc[p].op = "get"
  /\ LET tx == createTx(db)
     IN IF Missing(tx, proc[p].key)
        THEN proc' = [proc EXCEPT ![p].pc = "done", ![p].res = "NotFoundError"]
        ELSE proc' = [proc EXCEPT ![p].pc = "done", ![p].res = "ok",
                                  ![p].got = <<getNode(tx, proc[p].key).value>>]
  /\ UNCHANGED <<db, dbRoot, rootNode, lock, last, prf, stk, bat, mk, ids>>

\* a caller suspended in acquireLock resumes once the promise it awaited is
\* resolved and tests the lock again
acquireLock_retry(p) ==
  /\ proc[p].pc = "wait" /\ proc[p].woken
  /\ acquireLock(p)
  /\ UNCHANGED <<db, dbRoot, rootNode, last, prf, stk, bat, mk, ids>>

\* Tree.put from the return of acquireLock up to the call of setRoot
Tree_put_body(p) ==
  /\ proc[p].pc = "locked" /\ proc[p].op = "put"
  /\ LET tx == createTx(db)
         node == NewNode(proc[p].key, proc[p].val[1])
     IN IF rootNode = Null
        THEN /\ proc' = [proc EXCEPT ![p].pc = "setroot", ![p].succ = node,
                                     ![p].old = rootNode,
                                     ![p].writes = putNode(tx, node).writes]
             /\ rootNode' = rootNode
        ELSE LET r == Node_put(tx, rootNode, node)
             IN /\ rootNode' = r.self
                /\ IF r.err # NoErr
                   THEN proc' = [proc EXCEPT ![p].pc = "threw", ![p].res = r.err,
                                             ![p].old = rootNode]
                   ELSE proc' = [proc EXCEPT ![p].pc = "setroot", ![p].succ = r.ret,
                                             ![p].old = rootNode,
                                             ![p].writes = r.tx.writes]
  /\ UNCHANGED <<db, dbRoot, lock, last, prf, stk, bat, mk, ids>>

\* Tree.del from the return of acquireLock up to the call of setRoot
Tree_del_body(p) ==
  /\ proc[p].pc = "locked" /\ proc[p].op = "del"
  /\ LET tx == createTx(db)
     IN IF rootNode = Null
        THEN /\ proc' = [proc EXCEPT ![p].pc = "threw", ![p].res = "TypeError",
                                     ![p].old = rootNode]
             /\ rootNode' = rootNode
        ELSE LET r == Node_delete(tx, rootNode, proc[p].key)
             IN /\ rootNode' = r.self
                /\ IF r.err # NoErr
                   THEN proc' = [proc EXCEPT ![p].pc = "threw", ![p].res = r.err,
                                             ![p].old = rootNode]
                   ELSE proc' = [proc EXCEPT ![p].pc = "setroot", ![p].succ = r.ret,
                                             ![p].old = rootNode,
                                             ![p].writes = r.tx.writes]
  /\ UNCHANGED <<db, dbRoot, lock, last, prf, stk, bat, mk, ids>>

\* Tree.setRoot(node, tx): ':root' is written with this.db, not with tx
setRoot(p) ==
  /\ proc[p].pc = "setroot"
  /\ dbRoot' = IF proc[p].succ # Null THEN proc[p].succ.key ELSE NoKey
  /\ rootNode' = proc[p].succ
  /\ proc' = [proc EXCEPT ![p].pc = "commit"]
  /\ UNCHANGED <<db, lock, last, prf, stk, bat, mk, ids>>

\* tx.commit(): the staged writes reach the store atomically
commit(p) ==
  /\ proc[p].pc = "commit"
  /\ db' = TxApply(db, proc[p].writes)
  /\ last' = [last EXCEPT ![proc[p].key] = proc[p].val]
  /\ proc' = [proc EXCEPT ![p].pc = "release", ![p].writes = EmptyWrites]
  /\ UNCHANGED <<dbRoot, rootNode, lock, prf, stk, bat, mk, ids>>

\* tx.commit() rejects (the store's batch write fails): nothing of the
\* transaction reaches the store, the error leaves Tree.put / Tree.del, and
\* release() is never called
commit_fail(p) ==
  /\ proc[p].pc = "commit"
  /\ proc' = [proc EXCEPT ![p].pc = "threw", ![p].res = "CommitError",
                          ![p].writes = EmptyWrites]
  /\ UNCHANGED <<db, dbRoot, rootNode, lock, last, prf, stk, bat, mk, ids>>

\* releaseLock(): this.lock = null and the promise is resolved, which wakes
\* every caller that awaits it; then put/del return
releaseLock(p) ==
  /\ proc[p].pc = "release"
  /\ lock' = FALSE
  /\ proc' = [q \in Procs |->
                IF q = p THEN [proc[q] EXCEPT !.pc = "done", !.res = "ok", !.succ = Null]
                ELSE IF proc[q].pc = "wait" THEN [proc[q] EXCEPT !.woken = TRUE]
                ELSE proc[q]]
  /\ UNCHANGED <<db, dbRoot, rootNode, last, prf, stk, bat, mk, ids>>

\* the caller's promise settles (resolved, or rejected with the thrown error)
Settle(p) ==
  /\ proc[p].pc \in {"done", "threw"}
  /\ proc' = [proc EXCEPT ![p] = Idle]
  /\ UNCHANGED <<db, dbRoot, rootNode, lock, last, prf, stk, bat, mk, ids>>

\* One caller that awaits each call before it issues the next.  No caller
\* ever resumes in acquireLock: nobody can release while the only caller waits.
Next ==
  \/ Call(SeqProc, 1..MaxKey, Vals)
  \/ Tree_put(SeqProc)
  \/ Tree_del(SeqProc)
  \/ Tree_get(SeqProc)
  \/ Tree_put_body(SeqProc)
  \/ Tree_del_body(SeqProc)
  \/ setRoot(SeqProc)
  \/ commit(SeqProc)
  \/ commit_fail(SeqProc)
  \/ releaseLock(SeqProc)
  \/ Settle(SeqProc)

Spec == Init /\ [][Next]_vars

\* Concurrent callers, interleaved at every suspension point.
NextConc ==
  \E p \in Procs :
    \/ Call(p, 1..ConcMaxKey, {1, MaxVal})
    \/ Tree_put(p)
    \/ Tree_del(p)
    \/ Tree_get(p)
    \/ acquireLock_retry(p)
    \/ Tree_put_body(p)
    \/ Tree_del_body(p)
    \/ setRoot(p)
    \/ commit(p)
    \/ commit_fail(p)
    \/ releaseLock(p)
    \/ Settle(p)

SpecConc == Init /\ [][NextConc]_vars

\* Every continuation that is ready to run is run by the event loop; whether
\* a caller calls again, and whether the store accepts or rejects a commit,
\* is not the program's choice.
Resume(p) ==
  \/ Tree_put(p)
  \/ Tree_del(p)
  \/ Tree_get(p)
  \/ acquireLock_retry(p)
  \/ Tree_put_body(p)
  \/ Tree_del_body(p)
  \/ setRoot(p)
  \/ commit(p)
  \/ commit_fail(p)
  \/ releaseLock(p)
  \/ Settle(p)

SpecLive == SpecConc /\ \A p \in Procs : WF_vars(Resume(p))

\* ---------------------------------------------------------------- the tree as a traversal sees it
\* every put or delete issued so far has either released the lock or not yet
\* taken it
Completed == ~lock

Persisted == {k \in Keys : db[k] # NoRec}

\* the node with key k as a traversal from the root object reads it: the
\* in-memory root object for the root, the persisted record below it
NodeAt(k) ==
  IF rootNode # Null /\ rootNode.key = k THEN rootNode ELSE decode(k, db[k])

Known(k) == k # NoKey /\ ((rootNode # Null /\ rootNode.key = k) \/ db[k] # NoRec)

RECURSIVE Subtree(_, _)
Subtree(k, fuel) ==
  IF fuel = 0 \/ ~Known(k) THEN {}
  ELSE {k} \cup Subtree(NodeAt(k).leftKey, fuel - 1)
           \cup Subtree(NodeAt(k).rightKey, fuel - 1)

RootKey == IF rootNode = Null THEN NoKey ELSE rootNode.key
Reachable == Subtree(RootKey, MaxKey)

\* longest path from k down to a leaf, 0 for an absent child
RECURSIVE RealHeight(_, _)
RealHeight(k, fuel) ==
  IF fuel = 0 \/ ~Known(k) THEN 0
  ELSE 1 + Max(RealHeight(NodeAt(k).leftKey, fuel - 1),
               RealHeight(NodeAt(k).rightKey, fuel - 1))

HashAt(k) == IF Known(k) THEN NodeAt(k).hash ELSE nullHash

\* the persisted tree, read from the store alone
RECURSIVE DbSubtree(_, _)
DbSubtree(k, fuel) ==
  IF fuel = 0 \/ k = NoKey THEN {}
  ELSE IF db[k] = NoRec THEN {k}
  ELSE {k} \cup DbSubtree(db[k].leftKey, fuel - 1) \cup DbSubtree(db[k].rightKey, fuel - 1)

DbLinks(k) == {db[k].leftKey, db[k].rightKey} \ {NoKey}

Finished(p, o) == proc[p].pc = "done" /\ proc[p].op = o /\ proc[p].res = "ok"

\* ---------------------------------------------------------------- claims

\* C1: a lookup returns the value of the last committed put of the key, and
\* reports not-found exactly when the key was never put or a delete of it was
\* committed last.
C1_LookupReturnsLastPut ==
  \A p \in Procs :
    (proc[p].pc = "done" /\ proc[p].op = "get") =>
      /\ proc[p].got = last[proc[p].key]
      /\ (proc[p].res = "NotFoundError") <=> (last[proc[p].key] = <<>>)

C1_Witness ==
  \E p \in Procs :
    /\ Finished(p, "get")
    /\ proc[p].got # <<>>
    /\ proc[p].key # RootKey
    /\ Cardinality(Persisted) >= 3

\* C2: the root hash commits to the dataset; in particular a put that changes
\* the value of an existing key changes rootHash().  Stated where setRoot has
\* installed the put's root and last still holds the value before the put.
C2_UpdateChangesRootHash ==
  \A p \in Procs :
    ( /\ proc[p].pc = "commit" /\ proc[p].op = "put"
      /\ last[proc[p].key] # <<>>
      /\ last[proc[p].key] # proc[p].val )
    => rootNode.hash # proc[p].old.hash

\* C3: after every completed put or delete every reachable node has
\* kvHash = H(enc(key) || enc(value)) and hash = H(left hash || right hash ||
\* kvHash), the zero digest standing for a missing child.
C3_HashConsistency ==
  Completed =>
    \A k \in Reachable :
      /\ NodeAt(k).kvHash = KVDigest(k, NodeAt(k).value)
      /\ NodeAt(k).hash = NodeDigest(HashAt(NodeAt(k).leftKey),
                                     HashAt(NodeAt(k).rightKey),
                                     NodeAt(k).kvHash)

\* C4: after every completed put or delete, every key in the left subtree of a
\* reachable node is smaller than the node's key and every key in its right
\* subtree is greater.
C4_BSTOrder ==
  Completed =>
    \A k \in Reachable :
      /\ \A j \in Subtree(NodeAt(k).leftKey, MaxKey) : j < k
      /\ \A j \in Subtree(NodeAt(k).rightKey, MaxKey) : j > k

\* a put has completed whose rotation replaced the root
C4_Witness ==
  /\ Completed
  /\ \E p \in Procs :
       /\ Finished(p, "put")
       /\ proc[p].old # Null
       /\ proc[p].old.key # RootKey
       /\ Cardinality(Reachable) >= 3

\* C5: after every completed put or delete every reachable node has
\* |rightHeight - leftHeight| <= 1 on its recorded heights.
C5_RecordedBalance ==
  Completed => \A k \in Reachable : Abs(balance(NodeAt(k))) <= 1

C5_Witness ==
  /\ Completed
  /\ \E p \in Procs : Finished(p, "del")
  /\ Cardinality(Reachable) >= 3
  /\ balance(rootNode) # 0

HeightOK(h, c) ==
  IF ~Known(c) THEN h = 0
  ELSE h = 1 + Max(NodeAt(c).leftHeight, NodeAt(c).rightHeight)

\* C6: after every completed put or delete a node's leftHeight is 0 exactly
\* when it has no left child and otherwise 1 + the larger recorded height of
\* that child; the same for rightHeight.
C6_HeightConsistency ==
  Completed =>
    \A k \in Reachable :
      /\ HeightOK(NodeAt(k).leftHeight, NodeAt(k).leftKey)
      /\ HeightOK(NodeAt(k).rightHeight, NodeAt(k).rightKey)

\* C7: after every completed put or delete the actual heights of the two
\* subtrees of every node differ by at most one.
C7_RealAVL ==
  Completed =>
    \A k \in Reachable :
      Abs(RealHeight(NodeAt(k).leftKey, MaxKey)
          - RealHeight(NodeAt(k).rightKey, MaxKey)) <= 1

\* C8: after every completed Tree.put or Tree.del every persisted record that
\* is a child of node n has parentKey = n.key, and the persisted record of the
\* root has an empty parentKey.
C8_ParentBackReference ==
  Completed =>
    /\ \A k \in Persisted : \A c \in DbLinks(k) :
         db[c] # NoRec => db[c].parentKey = k
    /\ (dbRoot # NoKey /\ db[dbRoot] # NoRec) => db[dbRoot].parentKey = NoKey

\* C9: after every completed mutation the persisted records are exactly the
\* nodes reachable from the persisted root, no link names a missing record,
\* and every key is linked exactly once (the root not at all).
C9_ReachabilityUniqueness ==
  Completed =>
    /\ dbRoot = RootKey
    /\ Persisted = DbSubtree(dbRoot, MaxKey)
    /\ Persisted = Reachable
    /\ Persisted = {k \in Keys : last[k] # <<>>}
    /\ \A k \in Persisted :
         /\ \A c \in DbLinks(k) : db[c] # NoRec
         /\ db[k].leftKey # NoKey => db[k].leftKey # db[k].rightKey
         /\ Cardinality({n \in Persisted : k \in DbLinks(n)})
              = (IF k = dbRoot THEN 0 ELSE 1)

\* a delete of the root has completed and promoted its child
C9_Witness ==
  /\ Completed
  /\ \E p \in Procs :
       /\ Finished(p, "del")
       /\ proc[p].old.key = proc[p].key
       /\ Cardinality(Persisted) >= 2

InBody(p) == proc[p].pc \in {"locked", "setroot", "commit", "release"}

\* C10: at most one caller is between the return of acquireLock and its call
\* of release.
C10_MutualExclusion ==
  /\ Cardinality({p \in Procs : InBody(p)}) <= 1
  /\ (\E p \in Procs : InBody(p)) => lock

\* one mutator is in its body while another waits for the lock
C10_Witness ==
  \E p, q \in Procs :
    /\ p # q
    /\ proc[p].pc = "commit"
    /\ proc[q].pc = "wait"

\* ---------------------------------------------------------------- Tree.put / Tree.del run alone
\* A tree between two calls: the store's node records, ':root', the in-memory
\* root object, and the error of the call that failed (NoErr when none did).
TreeState(store, rootKey, root, err) ==
  [store |-> store, rootKey |-> rootKey, root |-> root, err |-> err]

KeyOrNone(n) == IF n = Null THEN NoKey ELSE n.key

\* Tree.put(key, value) run from start to end with no other caller
Tree_put_seq(st, k, v) ==
  IF st.err # NoErr THEN st
  ELSE
    LET tx == createTx(st.store)
        node == NewNode(k, v)
    IN IF st.root = Null
       THEN TreeState(TxApply(st.store, putNode(tx, node).writes), node.key, node, NoErr)
       ELSE LET r == Node_put(tx, st.root, node)
            IN IF r.err # NoErr
               THEN TreeState(st.store, st.rootKey, r.self, r.err)
               ELSE TreeState(TxApply(st.store, r.tx.writes), KeyOrNone(r.ret), r.ret, NoErr)

\* Tree.del(key) run from start to end with no other caller
Tree_del_seq(st, k) ==
  IF st.err # NoErr THEN st
  ELSE IF st.root = Null THEN [st EXCEPT !.err = "TreeIsEmpty"]
  ELSE
    LET r == Node_delete(createTx(st.store), st.root, k)
    IN IF r.err # NoErr
       THEN TreeState(st.store, st.rootKey, r.self, r.err)
       ELSE TreeState(TxApply(st.store, r.tx.writes), KeyOrNone(r.ret), r.ret, NoErr)

\* the error a call rejects with when it runs alone on the given tree
SerialOutcome(o, k, v, root, store) ==
  LET st == TreeState(store, KeyOrNone(root), root, NoErr)
  IN IF o = "put" THEN Tree_put_seq(st, k, v[1]).err ELSE Tree_del_seq(st, k).err

\* C11: concurrent mutators are serializable in lock-acquisition order: a
\* Tree.del that holds the lock works on a tree for which its empty-tree test
\* still holds, and a mutator that failed in its body failed with the error
\* that the same call gives when it runs alone on the state the previous lock
\* holder committed.
C11_Serializable ==
  \A p \in Procs :
    /\ (proc[p].pc = "locked" /\ proc[p].op = "del") => rootNode # Null
    /\ (proc[p].pc = "threw" /\ proc[p].res # "CommitError")
         => proc[p].res = SerialOutcome(proc[p].op, proc[p].key, proc[p].val,
                                        proc[p].old, db)

\* C12: a failed Tree.put or Tree.del is a no-op: when the call has failed,
\* ':root', the node records, the in-memory root reference and its hash are
\* what they were before the call.
C12_FailedMutationNoOp ==
  \A p \in Procs :
    proc[p].pc = "threw" =>
      /\ rootNode = proc[p].old
      /\ HashOrNull(rootNode) = HashOrNull(proc[p].old)
      /\ dbRoot = KeyOrNone(proc[p].old)
      /\ Persisted = {k \in Keys : last[k] # <<>>}

EmptyTree == TreeState([k \in Keys |-> NoRec], NoKey, Null, NoErr)

\* the tree that puts of the committed dataset in ascending key order build
\* from the empty tree
RECURSIVE PutAscending(_, _)
PutAscending(st, k) ==
  IF k > MaxKey THEN st
  ELSE IF last[k] = <<>> THEN PutAscending(st, k + 1)
  ELSE PutAscending(Tree_put_seq(st, k, last[k][1]), k + 1)

\* Tree.rootHash(): null for the empty tree, nullHash standing for it
rootHash(root) == HashOrNull(root)

\* C13: the root hash depends only on the final dataset: after any completed
\* sequence of puts and deletes rootHash() equals the root hash of the tree
\* that puts of the same (key, value) pairs in ascending key order build.
C13_RootHashOrderIndependent ==
  Completed => rootHash(rootNode) = rootHash(PutAscending(EmptyTree, 1).root)

\* ---------------------------------------------------------------- insert, then delete in insertion order
Present == {k \in Keys : last[k] # <<>>}

\* The caller of the insert-then-delete-all scenario.  It puts the i-th new
\* key with value i, so the committed values tell the insertion order; once
\* it has started to delete (the key put first is gone) it only deletes, each
\* time the key put earliest among those left.
CallS5(p) ==
  /\ proc[p].pc = "idle"
  /\ \/ /\ (Present # {}) => (\E k \in Present : last[k][1] = 1)
        /\ \E k \in (1..MaxKey) \ Present :
             proc' = [proc EXCEPT ![p] =
                        [Idle EXCEPT !.pc = "init", !.op = "put", !.key = k,
                                     !.val = <<Cardinality(Present) + 1>>]]
     \/ \E k \in Present :
          /\ \A j \in Present : last[k][1] <= last[j][1]
          /\ proc' = [proc EXCEPT ![p] =
                        [Idle EXCEPT !.pc = "init", !.op = "del", !.key = k]]
  /\ UNCHANGED <<db, dbRoot, rootNode, lock, last, prf, stk, bat, mk, ids>>

NextS5 ==
  \/ CallS5(SeqProc)
  \/ Tree_put(SeqProc)
  \/ Tree_del(SeqProc)
  \/ Tree_put_body(SeqProc)
  \/ Tree_del_body(SeqProc)
  \/ setRoot(SeqProc)
  \/ commit(SeqProc)
  \/ releaseLock(SeqProc)
  \/ Settle(SeqProc)

SpecS5 == Init /\ [][NextS5]_vars

\* C14: when distinct keys are put into an empty tree and then deleted one by
\* one in insertion order, every Tree.del succeeds, and once all are deleted
\* rootHash() is null, ':root' is absent and no node record is left.
C14_InsertThenDeleteAll ==
  /\ \A p \in Procs :
       (proc[p].pc \in {"done", "threw"} /\ proc[p].op = "del") => proc[p].res = "ok"
  /\ (Completed /\ Present = {})
       => (rootNode = Null /\ dbRoot = NoKey /\ Persisted = {})

\* ---------------------------------------------------------------- iteration
\* The cursor methods read with tx = db, the store itself.  A cursor result is
\* [node |-> the node or Null, err |-> NoErr or the error thrown].
Cursor(n, e) == [node |-> n, err |-> e]

\* Node.edge(left): follow the left (right) links down to the last node;
\* fuel bounds the walk
RECURSIVE edge(_, _, _, _)
edge(store, cursor, left, fuel) ==
  LET tx == createTx(store)
      childKey == ChildKey(cursor, left)
  IN IF fuel = 0 THEN Cursor(Null, "NoEnd")
     ELSE IF Missing(tx, childKey) THEN Cursor(Null, "NotFoundError")
     ELSE IF childKey = NoKey THEN Cursor(cursor, NoErr)
     ELSE edge(store, getNode(tx, childKey), left, fuel - 1)

\* the backtrack loop of Node.step: climb parentKey links until a node that
\* is not skipped, or until there is no parent
RECURSIVE backtrack(_, _, _, _, _)
backtrack(store, this, cursorKey, left, fuel) ==
  LET tx == createTx(store)
  IN IF fuel = 0 THEN Cursor(Null, "NoEnd")
     ELSE IF Missing(tx, cursorKey) THEN Cursor(Null, "NotFoundError")
     ELSE IF cursorKey = NoKey THEN Cursor(Null, NoErr)
     ELSE LET cursor == getNode(tx, cursorKey)
              skip == IF left THEN cursor.key > this.key ELSE cursor.key < this.key
          IN IF ~skip THEN Cursor(cursor, NoErr)
             ELSE backtrack(store, this, cursor.parentKey, left, fuel - 1)

\* Node.step(left): prev() is step(true), next() is step(false)
step(store, this, left) ==
  LET tx == createTx(store)
      childKey == ChildKey(this, left)
  IN IF Missing(tx, childKey) THEN Cursor(Null, "NotFoundError")
     ELSE IF childKey # NoKey THEN edge(store, getNode(tx, childKey), ~left, MaxKey + 1)
     ELSE backtrack(store, this, this.parentKey, left, MaxKey + 1)

\* the keys that repeated step(left) visits from cursor c on, and how the
\* walk ends: "null" when step returns null, the error when a call throws,
\* "NoEnd" when it is still going after more steps than there are keys
RECURSIVE walk(_, _, _, _, _)
walk(store, c, left, visited, fuel) ==
  IF c.err # NoErr THEN [keys |-> visited, end |-> c.err]
  ELSE IF c.node = Null THEN [keys |-> visited, end |-> "null"]
  ELSE IF fuel = 0 THEN [keys |-> visited, end |-> "NoEnd"]
  ELSE walk(store, step(store, c.node, left), left, Append(visited, c.node.key), fuel - 1)

\* root.min() followed by next() until null (left = FALSE), or root.max()
\* followed by prev() until null (left = TRUE)
iterate(store, root, left) ==
  walk(store, edge(store, root, ~left, MaxKey + 1), left, <<>>, MaxKey + 1)

\* Tree.maybeLoad on a store: the root object a reopened tree starts with
maybeLoad(store, rootKey) ==
  IF rootKey = NoKey \/ store[rootKey] = NoRec THEN Null
  ELSE getNode(createTx(store), rootKey)

\* C24: after any sequence of completed puts and deletes a new Tree over the
\* same store loads a root that equals the in-memory root in root hash, key,
\* value, child links, parent reference and recorded heights (the nodes below
\* the root are read from the store by both), and ':root' is absent exactly
\* when the in-memory tree is empty.
C24_ReopenLossless ==
  Completed =>
    /\ maybeLoad(db, dbRoot) = rootNode
    /\ dbRoot = NoKey <=> rootNode = Null

\* C29: when Node.delete removes a node that has two children, the child it
\* promotes is the root of the taller subtree, and the left child when both
\* subtrees have the same height.
C29_PromotesTallerTiesLeft ==
  \A p \in Procs :
    ( /\ proc[p].pc = "locked" /\ proc[p].op = "del"
      /\ proc[p].key \in Reachable
      /\ NodeAt(proc[p].key).leftKey # NoKey
      /\ NodeAt(proc[p].key).rightKey # NoKey )
    => LET this == NodeAt(proc[p].key)
       IN promoteLeft(this) <=>
            RealHeight(this.leftKey, MaxKey) >= RealHeight(this.rightKey, MaxKey)

\* the keys reachable from node n through the records of a store
RECURSIVE StoreSubtree(_, _, _)
StoreSubtree(store, k, fuel) ==
  IF fuel = 0 \/ k = NoKey \/ store[k] = NoRec THEN {}
  ELSE {k} \cup StoreSubtree(store, store[k].leftKey, fuel - 1)
           \cup StoreSubtree(store, store[k].rightKey, fuel - 1)

\* C30: deleting the key of a node that has two children succeeds and removes
\* exactly that key: Node.delete returns a subtree root from which every
\* other key is reachable, and its transaction removes the record of the key.
C30_TwoChildDeleteSucceeds ==
  [][ \A p \in Procs :
        ( /\ proc[p].pc = "locked" /\ proc[p].op = "del"
          /\ proc[p].key \in Reachable
          /\ NodeAt(proc[p].key).leftKey # NoKey
          /\ NodeAt(proc[p].key).rightKey # NoKey
          /\ proc'[p].pc # "locked" )
        => /\ proc'[p].pc = "setroot"
           /\ proc'[p].succ # Null
           /\ LET store == TxApply(db, proc'[p].writes)
              IN /\ store[proc[p].key] = NoRec
                 /\ StoreSubtree(store, proc'[p].succ.key, MaxKey)
                      = Reachable \ {proc[p].key} ]_vars

\* ---------------------------------------------------------------- build, delete, update
\* The caller of the scenario that updates a key of a tree built by puts and
\* deletes: it puts new keys (with value 1) and, once every key is in the
\* tree, deletes some; the scenario ends with one put of a key that is in
\* the tree, with value MaxVal.
CallUpd(p) ==
  /\ proc[p].pc = "idle"
  /\ \A k \in Present : last[k] = <<1>>
  /\ \/ \E k \in (1..UpdMaxKey) \ Present :
          proc' = [proc EXCEPT ![p] =
                     [Idle EXCEPT !.pc = "init", !.op = "put", !.key = k, !.val = <<1>>]]
     \/ /\ Present = 1..UpdMaxKey
        /\ \E k \in Present :
             proc' = [proc EXCEPT ![p] =
                        [Idle EXCEPT !.pc = "init", !.op = "del", !.key = k]]
     \/ \E k \in Present :
          proc' = [proc EXCEPT ![p] =
                     [Idle EXCEPT !.pc = "init", !.op = "put", !.key = k,
                                  !.val = <<MaxVal>>]]
  /\ UNCHANGED <<db, dbRoot, rootNode, lock, last, prf, stk, bat, mk, ids>>

NextUpd ==
  \/ CallUpd(SeqProc)
  \/ Tree_put(SeqProc)
  \/ Tree_del(SeqProc)
  \/ Tree_put_body(SeqProc)
  \/ Tree_del_body(SeqProc)
  \/ setRoot(SeqProc)
  \/ commit(SeqProc)
  \/ releaseLock(SeqProc)
  \/ Settle(SeqProc)

SpecUpd == Init /\ [][NextUpd]_vars

\* the node of key k as a traversal reads it from a root object and a store;
\* Null when there is none
ViewOf(store, root, k) ==
  IF root # Null /\ root.key = k THEN root
  ELSE IF store[k] = NoRec THEN Null ELSE decode(k, store[k])

\* a node's child and parent links and its recorded heights
Links(n) ==
  [ leftKey |-> n.leftKey, rightKey |-> n.rightKey, parentKey |-> n.parentKey,
    leftHeight |-> n.leftHeight, rightHeight |-> n.rightHeight ]

\* C33: a put of a key that is already in the tree returns the same root
\* node, adds and removes no node, and leaves every node's links and
\* recorded heights, and every other node's value and kvHash, as they were;
\* the node of the key gets the new value and its kvHash.
C33_UpdateChangesValueOnly ==
  [][ \A p \in Procs :
        ( /\ proc[p].pc = "locked" /\ proc[p].op = "put"
          /\ proc[p].key \in Reachable
          /\ proc'[p].pc # "locked" )
        => /\ proc'[p].pc = "setroot"
           /\ proc'[p].succ # Null
           /\ proc'[p].succ.key = rootNode.key
           /\ LET store == TxApply(db, proc'[p].writes)
                  root == proc'[p].succ
              IN \A k \in Keys :
                   LET before == ViewOf(db, rootNode, k)
                       after == ViewOf(store, root, k)
                   IN /\ (before = Null) <=> (after = Null)
                      /\ before # Null =>
                           /\ Links(after) = Links(before)
                           /\ k # proc[p].key =>
                                /\ after.value = before.value
                                /\ after.kvHash = before.kvHash
                           /\ k = proc[p].key =>
                                /\ after.value = proc[p].val[1]
                                /\ after.kvHash = KVDigest(k, proc[p].val[1]) ]_vars

\* ---------------------------------------------------------------- the calls of rebalance
\* The rebalance calls a put or a delete makes: each is the transaction and
\* the receiver at the moment setChild calls this.rebalance(tx).
RebalanceCall(tx, this, left, child) ==
  LET c == IF child # Null THEN [child EXCEPT !.parentKey = this.key] ELSE nullNode
      t1 == assignChild(this, left, c)
  IN IF needsRebalance(t1) THEN {[tx |-> tx, this |-> t1]} ELSE {}

RECURSIVE putCalls(_, _, _)
putCalls(tx, this, node) ==
  IF sameKey(node, this) THEN {}
  ELSE
    LET left == descendLeft(node.key, this)
        childKey == ChildKey(this, left)
    IN IF Missing(tx, childKey) THEN {}
       ELSE IF childKey = NoKey THEN RebalanceCall(tx, this, left, node)
       ELSE LET r == Node_put(tx, getNode(tx, childKey), node)
            IN putCalls(tx, getNode(tx, childKey), node)
                 \cup IF r.err # NoErr THEN {}
                      ELSE RebalanceCall(r.tx, this, left, r.ret)

RECURSIVE deleteCalls(_, _, _)
deleteCalls(tx, this, key) ==
  IF key = this.key THEN {}
  ELSE
    LET left == descendLeft(key, this)
        childKey == ChildKey(this, left)
    IN IF Missing(tx, childKey) \/ childKey = NoKey THEN {}
       ELSE LET r == Node_delete(tx, getNode(tx, childKey), key)
            IN deleteCalls(tx, getNode(tx, childKey), key)
                 \cup IF r.err # NoErr THEN {}
                      ELSE RebalanceCall(r.tx, this, left, r.ret)

\* the rebalance calls of the put or delete that caller p is about to run
CallsOf(p) ==
  IF proc[p].pc # "locked" \/ rootNode = Null THEN {}
  ELSE IF proc[p].op = "put"
  THEN putCalls(createTx(db), rootNode, NewNode(proc[p].key, proc[p].val[1]))
  ELSE IF proc[p].op = "del"
  THEN deleteCalls(createTx(db), rootNode, proc[p].key)
  ELSE {}

\* the keys of the subtree of node object n in order, read through tx
RECURSIVE InOrder(_, _, _)
InOrder(tx, n, fuel) ==
  IF n = Null \/ fuel = 0 THEN <<>>
  ELSE LET sub(k) == IF Missing(tx, k) THEN <<>>
                     ELSE InOrder(tx, getNode(tx, k), fuel - 1)
       IN sub(n.leftKey) \o <<n.key>> \o sub(n.rightKey)

\* C31: a rebalance called on a node with |balance| > 1 returns the heavy
\* child rotated up over the node, or, exactly when the heavy child leans
\* the other way, that child's inner child rotated up over both; the
\* returned subtree has the same keys in the same order and a root with
\* |balance| <= 1.
C31_RebalanceRule ==
  \A p \in Procs : \A c \in CallsOf(p) :
    LET n == c.this
        heavyLeft == balance(n) < 0
        child == getNode(c.tx, ChildKey(n, heavyLeft))
        inner == ChildKey(child, ~heavyLeft)
        outer == ChildKey(child, heavyLeft)
        leansBack == IF heavyLeft THEN balance(child) > 0 ELSE balance(child) < 0
        r == rebalance(c.tx, n)
    IN /\ r.err = NoErr
       /\ r.ret.key = IF leansBack THEN inner ELSE child.key
       /\ ChildKey(r.ret, ~heavyLeft) = n.key
       /\ ChildKey(r.ret, heavyLeft) = IF leansBack THEN child.key ELSE outer
       /\ InOrder(r.tx, r.ret, MaxKey) = InOrder(c.tx, n, MaxKey)
       /\ Abs(balance(r.ret)) <= 1

\* a put is about to run whose rebalance rotates the heavy child first, in a
\* subtree of four or more nodes
C31_Witness ==
  \E p \in Procs : \E c \in CallsOf(p) :
    LET n == c.this
        heavyLeft == balance(n) < 0
        child == getNode(c.tx, ChildKey(n, heavyLeft))
    IN /\ IF heavyLeft THEN balance(child) > 0 ELSE balance(child) < 0
       /\ Len(InOrder(c.tx, n, MaxKey)) >= 4

\* the rotate calls of a rebalance call c: the one rotation of the node, or
\* the rotation of the heavy child followed by the rotation of the node
RotateCalls(c) ==
  LET left == balance(c.this) < 0
      child == getNode(c.tx, ChildKey(c.this, left))
      Rot(tx, this, l) == [tx |-> tx, this |-> this, left |-> l]
  IN IF ~isDouble(left, child) THEN {Rot(c.tx, c.this, left)}
     ELSE LET r1 == rotate(c.tx, child, ~left)
              r2 == setChild(r1.tx, c.this, left, r1.ret, FALSE)
          IN {Rot(c.tx, child, ~left)}
               \cup IF r1.err # NoErr \/ r2.err # NoErr THEN {}
                    ELSE {Rot(r2.tx, r2.self, left)}

\* the recorded height of the child with key k, read through tx: 0 for no child
HeightIn(tx, k) == IF k = NoKey THEN 0 ELSE height(getNode(tx, k))

HashIn(tx, k) == IF k = NoKey THEN nullHash ELSE getNode(tx, k).hash

\* C32: every rotation returns a node with an empty parent reference; the
\* demoted node is its child and names it as parent, the moved grandchild is
\* the demoted node's child and names it as parent; the transaction holds
\* the record of each of the three as the rotation left them; and the
\* returned node's hash and heights are the recurrences over its children.
C32_RotationConsistent ==
  \A p \in Procs : \A c \in CallsOf(p) : \A q \in RotateCalls(c) :
    LET child == getNode(q.tx, ChildKey(q.this, q.left))
        grand == ChildKey(child, ~q.left)
        r == rotate(q.tx, q.this, q.left)
        root == r.ret
        demoted == r.self
    IN /\ r.err = NoErr
       /\ root.key = child.key /\ demoted.key = q.this.key
       /\ root.parentKey = NoKey
       /\ ChildKey(root, ~q.left) = demoted.key
       /\ demoted.parentKey = root.key
       /\ ChildKey(demoted, q.left) = grand
       /\ grand # NoKey => getNode(r.tx, grand).parentKey = demoted.key
       /\ \A n \in {root, demoted} : r.tx.writes[n.key] = encode(n)
       /\ grand # NoKey => r.tx.writes[grand] \notin {Untouched, NoRec}
       /\ root.leftHeight = HeightIn(r.tx, root.leftKey)
       /\ root.rightHeight = HeightIn(r.tx, root.rightKey)
       /\ demoted.hash = NodeDigest(HashIn(r.tx, demoted.leftKey),
                                    HashIn(r.tx, demoted.rightKey), demoted.kvHash)
       /\ root.hash = NodeDigest(HashIn(r.tx, root.leftKey),
                                 HashIn(r.tx, root.rightKey), root.kvHash)

RECURSIVE Ascending(_, _)
Ascending(S, k) ==
  IF k > MaxKey THEN <<>>
  ELSE IF k \in S THEN <<k>> \o Ascending(S, k + 1) ELSE Ascending(S, k + 1)

Reverse(s) == [i \in 1..Len(s) |-> s[Len(s) + 1 - i]]

IterationOK(store, root) ==
  root # Null =>
    /\ iterate(store, root, FALSE) = [keys |-> Ascending(Present, 1), end |-> "null"]
    /\ iterate(store, root, TRUE) = [keys |-> Reverse(Ascending(Present, 1)), end |-> "null"]

\* C15: in the tree reached by any completed sequence of puts and deletes,
\* also after it is reloaded from the store, min() followed by next() visits
\* every key once in ascending order and then returns null, and max()
\* followed by prev() does the same in descending order.
C15_IterationComplete ==
  Completed =>
    /\ IterationOK(db, rootNode)
    /\ IterationOK(db, maybeLoad(db, dbRoot))

\* ---------------------------------------------------------------- proof trees (verify)
ProofMaxKey == 3   \* keys of the trees that proofs are generated from
MaxEdits == 2      \* hash-preserving rewrites applied to one proof

PKeys == 1..ProofMaxKey

\* the key '.' of the root object: the least key, since every key starts with '.'
RootObjKey == 1
NoValue == 0

\* A proof node is an object { left, right, key, value, kvHash }; key and
\* value are NoKey / NoValue when absent, kvHash is <<>> when absent.  A child
\* is Null, a base64 string holding a hash, or a proof node.
PNode(l, r, k, v, h) == [left |-> l, right |-> r, key |-> k, value |-> v, kvHash |-> h]
HashStr(h) == [hash |-> h]
IsObject(c) == "key" \in DOMAIN c
IsString(c) == "hash" \in DOMAIN c

getKvHash(n) == KVDigest(n.key, n.value)

RECURSIVE getHash(_)
childHash(child) ==
  IF child = Null THEN nullHash
  ELSE IF IsString(child) THEN child.hash
  ELSE getHash(child)

getHash(node) ==
  NodeDigest(childHash(node.left), childHash(node.right),
             IF node.kvHash # <<>> THEN node.kvHash ELSE getKvHash(node))

\* path.reduce((a, b) => a === b): the first element when there is only one,
\* otherwise the comparisons folded from the left
RECURSIVE reduceFrom(_, _, _)
reduceFrom(path, i, acc) ==
  IF i > Len(path) THEN acc ELSE reduceFrom(path, i + 1, acc = path[i])
pathReduce(path) == reduceFrom(path, 2, path[1])

\* flatten: the proof nodes in order, each with its isEdge mark
RECURSIVE flatten(_, _)
flatten(node, path) ==
  LET before == IF node.left # Null /\ IsObject(node.left)
                THEN flatten(node.left, Append(path, FALSE)) ELSE <<>>
      isEdge == (Len(path) = 0 \/ pathReduce(path))
                /\ node.left = Null /\ node.right = Null
      after == IF node.right # Null /\ IsObject(node.right)
               THEN flatten(node.right, Append(path, TRUE)) ELSE <<>>
  IN before \o <<[key |-> node.key, value |-> node.value, isEdge |-> isEdge]>> \o after

\* the first run of nodes that have a key
RECURSIVE valueRun(_, _, _)
valueRun(nodes, i, run) ==
  IF i > Len(nodes) THEN run
  ELSE IF nodes[i].key = NoKey
       THEN IF Len(run) > 0 THEN run ELSE valueRun(nodes, i + 1, run)
  ELSE valueRun(nodes, i + 1, Append(run, nodes[i]))

Ok(pairs) == [err |-> NoErr, pairs |-> pairs]
Fail(e) == [err |-> e, pairs |-> <<>>]

\* checkRange: the error it throws, NoErr when it returns
checkRange(valueNodes, from, to) ==
  IF Len(valueNodes) = 0 THEN "TypeError"
  ELSE IF valueNodes[1].key >= from /\ ~valueNodes[1].isEdge
       THEN "First key greater than beginning of range"
  ELSE IF valueNodes[Len(valueNodes)].key <= to /\ ~valueNodes[Len(valueNodes)].isEdge
       THEN "Last key less than end of range"
  ELSE NoErr

\* the loop over valueNodes that looks for the parent object
RECURSIVE findParent(_, _, _)
findParent(valueNodes, i, parentKey) ==
  IF i > Len(valueNodes) THEN Fail("TypeError")
  ELSE IF valueNodes[i].key = parentKey
       THEN Ok(<<<<valueNodes[i].key, valueNodes[i].value>>>>)
  ELSE IF valueNodes[i].key > parentKey THEN Fail("Parent node not found")
  ELSE findParent(valueNodes, i + 1, parentKey)

PairsOf(nodes) == [i \in 1..Len(nodes) |-> <<nodes[i].key, nodes[i].value>>]

\* verify(expectedRootHash, proof, query) for a query of one path component:
\* from is '.' + query, to is from + '/', and the parent object is the root
\* object.  The result is the list of the (key, value) pairs that the
\* returned object is assembled from.
verify(expectedRootHash, proof, from, to) ==
  IF getHash(proof) # expectedRootHash
  THEN Fail("Proof does not match expected root hash")
  ELSE
    LET nodes == flatten(proof, <<>>)
        valueNodes == valueRun(nodes, 1, <<>>)
        resultNodes == SelectSeq(valueNodes, LAMBDA n : n.key >= from /\ n.key <= to)
    IN IF Len(nodes) = 1
       THEN IF nodes[1].key # RootObjKey THEN Fail("Expected node to be root object")
            ELSE Ok(PairsOf(nodes))
       ELSE IF Len(resultNodes) = 0
       THEN LET e == checkRange(valueNodes, RootObjKey, RootObjKey)
            IN IF e # NoErr THEN Fail(e) ELSE findParent(valueNodes, 1, RootObjKey)
       ELSE LET e == checkRange(valueNodes, from, to)
            IN IF e # NoErr THEN Fail(e) ELSE Ok(PairsOf(resultNodes))

\* a subtree folded into the hash its root stores
foldRef(store, k) == IF k = NoKey THEN Null ELSE HashStr(store[k].hash)

\* Node.getBranchRange(from, to, db): the proof tree of a range.  A node
\* below the range keeps its left subtree as a hash and continues right, a
\* node above it keeps its right subtree as a hash and continues left, a node
\* inside it continues on both sides; every visited node carries its key and
\* value.
RECURSIVE getBranchRange(_, _, _, _)
getBranchRange(store, n, from, to) ==
  LET below(k) == IF k = NoKey THEN Null
                  ELSE getBranchRange(store, decode(k, store[k]), from, to)
  IN IF n.key < from
     THEN PNode(foldRef(store, n.leftKey), below(n.rightKey), n.key, n.value, <<>>)
     ELSE IF n.key > to
     THEN PNode(below(n.leftKey), foldRef(store, n.rightKey), n.key, n.value, <<>>)
     ELSE PNode(below(n.leftKey), below(n.rightKey), n.key, n.value, <<>>)

\* ---------------------------------------------------------------- a client that verifies proofs
Paths == UNION {[1..m -> BOOLEAN] : m \in 0..ProofMaxKey}

\* the child object reached from node along path (FALSE = left, TRUE =
\* right), Null when the path leaves the objects of the proof
RECURSIVE subAt(_, _)
subAt(node, path) ==
  IF node = Null \/ ~IsObject(node) THEN Null
  ELSE IF Len(path) = 0 THEN node
  ELSE subAt(IF path[1] THEN node.right ELSE node.left, Tail(path))

RECURSIVE replaceAt(_, _, _)
replaceAt(node, path, new) ==
  IF Len(path) = 0 THEN new
  ELSE IF path[1]
       THEN [node EXCEPT !.right = replaceAt(node.right, Tail(path), new)]
       ELSE [node EXCEPT !.left = replaceAt(node.left, Tail(path), new)]

Quiet == \A p \in Procs : proc[p].pc = "idle"

\* a caller puts a key that the tree does not hold yet
CallNew(p) ==
  /\ proc[p].pc = "idle"
  /\ prf.phase \in {"none", "trusted"}
  /\ \E k \in PKeys \ Present :
       proc' = [proc EXCEPT ![p] =
                  [Idle EXCEPT !.pc = "init", !.op = "put", !.key = k, !.val = <<1>>]]
  /\ UNCHANGED <<db, dbRoot, rootNode, lock, last, prf, stk, bat, mk, ids>>

\* the client learns the root hash of the committed tree
Trust ==
  /\ prf.phase = "none" /\ Quiet /\ Completed /\ rootNode # Null
  /\ prf' = [prf EXCEPT !.phase = "trusted", !.expected = rootHash(rootNode),
                        !.data = last]
  /\ UNCHANGED <<db, dbRoot, rootNode, lock, proc, last, stk, bat, mk, ids>>

\* Tree.getBranchRange(from, to) on the committed tree; the client receives
\* the proof tree
Generate ==
  /\ prf.phase = "trusted" /\ Quiet /\ Completed /\ rootNode # Null
  /\ \E from \in PKeys : \E to \in from..ProofMaxKey :
       prf' = [prf EXCEPT !.phase = "proof", !.from = from, !.to = to,
                          !.proof = getBranchRange(db, rootNode, from, to)]
  /\ UNCHANGED <<db, dbRoot, rootNode, lock, proc, last, stk, bat, mk, ids>>

CanRewrite == prf.phase = "proof" /\ ~prf.tampered /\ prf.edits < MaxEdits
Rewrite(path, new) ==
  /\ prf' = [prf EXCEPT !.proof = replaceAt(prf.proof, path, new),
                        !.edits = prf.edits + 1]
  /\ UNCHANGED <<db, dbRoot, rootNode, lock, proc, last, stk, bat, mk, ids>>

\* the sender replaces a subtree of the proof by its hash
Fold ==
  /\ CanRewrite
  /\ \E path \in Paths :
       /\ Len(path) > 0 /\ subAt(prf.proof, path) # Null
       /\ Rewrite(path, HashStr(getHash(subAt(prf.proof, path))))

\* the sender replaces the key and value of a node by their kvHash
HideKv ==
  /\ CanRewrite
  /\ \E path \in Paths :
       LET n == subAt(prf.proof, path)
       IN /\ n # Null /\ n.key # NoKey /\ n.kvHash = <<>>
          /\ Rewrite(path, [n EXCEPT !.key = NoKey, !.value = NoValue,
                                     !.kvHash = getKvHash(n)])

\* the sender adds the kvHash of a node next to its key and value
AttachKvHash ==
  /\ CanRewrite
  /\ \E path \in Paths :
       LET n == subAt(prf.proof, path)
       IN /\ n # Null /\ n.key # NoKey /\ n.kvHash = <<>>
          /\ Rewrite(path, [n EXCEPT !.kvHash = getKvHash(n)])

CanTamper == prf.phase = "proof" /\ ~prf.tampered
Tamper(path, new) ==
  /\ prf' = [prf EXCEPT !.proof = replaceAt(prf.proof, path, new),
                        !.tampered = TRUE]
  /\ UNCHANGED <<db, dbRoot, rootNode, lock, proc, last, stk, bat, mk, ids>>

\* digests that a tampered field can be set to
OtherKvHashes == {KVDigest(k, v) : k \in PKeys, v \in Vals}
OtherHashes == {NodeDigest(nullHash, nullHash, h) : h \in OtherKvHashes}

\* one value of the proof is changed
SetValue ==
  /\ CanTamper
  /\ \E path \in Paths : \E v \in Vals :
       LET n == subAt(prf.proof, path)
       IN /\ n # Null /\ n.key # NoKey /\ v # n.value
          /\ Tamper(path, [n EXCEPT !.value = v])

\* one key of the proof is changed
SetKey ==
  /\ CanTamper
  /\ \E path \in Paths : \E k \in PKeys :
       LET n == subAt(prf.proof, path)
       IN /\ n # Null /\ n.key # NoKey /\ k # n.key
          /\ Tamper(path, [n EXCEPT !.key = k])

\* one kvHash of the proof is changed
SetKvHash ==
  /\ CanTamper
  /\ \E path \in Paths : \E h \in OtherKvHashes :
       LET n == subAt(prf.proof, path)
       IN /\ n # Null /\ n.kvHash # <<>> /\ h # n.kvHash
          /\ Tamper(path, [n EXCEPT !.kvHash = h])

\* one child hash of the proof is changed
SetChildHash ==
  /\ CanTamper
  /\ \E path \in Paths : \E right \in BOOLEAN : \E h \in OtherHashes :
       LET n == subAt(prf.proof, path)
           c == IF right THEN n.right ELSE n.left
       IN /\ n # Null
          /\ c # Null /\ IsString(c) /\ h # c.hash
          /\ Tamper(path, IF right THEN [n EXCEPT !.right = HashStr(h)]
                                   ELSE [n EXCEPT !.left = HashStr(h)])

\* the client runs verify on what it received
Verify ==
  /\ prf.phase = "proof"
  /\ prf' = [prf EXCEPT !.phase = "verified",
                        !.result = verify(prf.expected, prf.proof, prf.from, prf.to)]
  /\ UNCHANGED <<db, dbRoot, rootNode, lock, proc, last, stk, bat, mk, ids>>

NextProof ==
  \/ CallNew(SeqProc)
  \/ Tree_put(SeqProc)
  \/ Tree_put_body(SeqProc)
  \/ setRoot(SeqProc)
  \/ commit(SeqProc)
  \/ releaseLock(SeqProc)
  \/ Settle(SeqProc)
  \/ Trust
  \/ Generate
  \/ Fold
  \/ HideKv
  \/ AttachKvHash
  \/ SetValue
  \/ SetKey
  \/ SetKvHash
  \/ SetChildHash
  \/ Verify

SpecProof == Init /\ [][NextProof]_vars

\* the proof was generated from the tree whose root hash the client trusts
Fresh == prf.data = last

\* the (key, value) pairs of the committed tree with from <= key <= to
InRange(from, to) ==
  LET ks == Ascending({k \in Present : k >= from /\ k <= to}, 1)
  IN [i \in 1..Len(ks) |-> <<ks[i], last[ks[i]][1]>>]

\* C16: verify applied to the root hash of a committed tree and to the proof
\* tree generated for a range succeeds and returns exactly the pairs of the
\* range, in key order (stated for ranges that hold at least one key).
C16_HonestProofVerifies ==
  ( /\ prf.phase = "verified" /\ Fresh
    /\ prf.edits = 0 /\ ~prf.tampered
    /\ InRange(prf.from, prf.to) # <<>> )
  => prf.result = Ok(InRange(prf.from, prf.to))

\* C17: a proof that verifies against R fails with the root-hash error once
\* one key, value, kvHash or child hash of it is changed, and a proof
\* generated from a later state fails with it against the earlier root hash.
C17_TamperedProofRejected ==
  (prf.phase = "verified" /\ (prf.tampered \/ ~Fresh))
  => prf.result.err = "Proof does not match expected root hash"

ProofKeys == LET ns == flatten(prf.proof, <<>>)
             IN SelectSeq([i \in 1..Len(ns) |-> ns[i].key], LAMBDA k : k # NoKey)

\* C18: verify throws the first-key error when the first key-bearing node of
\* the proof is at or past the start of the range and is not the smallest key
\* of the tree, and the last-key error when the last key-bearing node is at or
\* before the end of the range and is not the largest key of the tree.
C18_UnprovenEdgeRejected ==
  ( /\ prf.phase = "verified" /\ Fresh /\ ~prf.tampered
    /\ Len(ProofKeys) > 0 )
  => LET first == ProofKeys[1]
         lastKey == ProofKeys[Len(ProofKeys)]
     IN IF first >= prf.from /\ (\E k \in Present : k < first)
        THEN prf.result = Fail("First key greater than beginning of range")
        ELSE (lastKey <= prf.to /\ (\E k \in Present : k > lastKey))
               => prf.result = Fail("Last key less than end of range")


\* C37: when verify returns a result for a proof of the committed tree,
\* also one in which the sender has replaced subtrees by their hashes or
\* nodes by their kvHash, the result holds every pair of the tree whose key
\* lies in the queried range.
C37_VerifiedRangeComplete ==
  ( /\ prf.phase = "verified" /\ Fresh /\ ~prf.tampered
    /\ prf.result.err = NoErr )
  => \A i \in 1..Len(InRange(prf.from, prf.to)) :
       \E j \in 1..Len(prf.result.pairs) :
         prf.result.pairs[j] = InRange(prf.from, prf.to)[i]

\* the proof nodes in order, each marked as the rule of C39 marks it: no left
\* and no right child, and a path from the root that only goes left or only
\* goes right
RECURSIVE markedByRule(_, _)
markedByRule(node, path) ==
  LET before == IF node.left # Null /\ IsObject(node.left)
                THEN markedByRule(node.left, Append(path, FALSE)) ELSE <<>>
      onEdgePath == \/ \A i \in 1..Len(path) : ~path[i]
                    \/ \A i \in 1..Len(path) : path[i]
      isEdge == onEdgePath /\ node.left = Null /\ node.right = Null
      after == IF node.right # Null /\ IsObject(node.right)
               THEN markedByRule(node.right, Append(path, TRUE)) ELSE <<>>
  IN before \o <<[key |-> node.key, value |-> node.value, isEdge |-> isEdge]>> \o after

\* C39: flatten marks a proof node as isEdge exactly when it has neither a
\* left nor a right child and lies on the all-left or the all-right path
\* from the root of the proof (or is the root).
C39_IsEdgeRule ==
  prf.proof # Null => flatten(prf.proof, <<>>) = markedByRule(prf.proof, <<>>)

----------------------------------------------------------------------------
\* docs/algorithms.md: the operator proofs of the key/value tree, their
\* generation for a batch of keys and their verification on a stack.

StackMaxKey == 4
MaxOps == 5
SKeys == 1..StackMaxKey

\* node_hash = H(kv_hash, left_child_hash, right_child_hash)
DocNodeDigest(kvh, lh, rh) == <<kvh, lh, rh>>

\* A tree of the document: Null, or a node with its key, value and children.
DocNode(k, v, l, r) == [ key |-> k, value |-> v, left |-> l, right |-> r ]

ValueOf(k) == k

RECURSIVE DocTrees(_, _)
DocTrees(lo, hi) ==
  {Null} \cup UNION { { DocNode(k, ValueOf(k), l, r) :
                          l \in DocTrees(lo, k - 1), r \in DocTrees(k + 1, hi) }
                      : k \in lo..hi }

RECURSIVE DocHash(_)
DocHash(t) ==
  IF t = Null THEN nullHash
  ELSE DocNodeDigest(KVDigest(t.key, t.value), DocHash(t.left), DocHash(t.right))

RECURSIVE DocPairs(_)
DocPairs(t) ==
  IF t = Null THEN {}
  ELSE DocPairs(t.left) \cup {<<t.key, t.value>>} \cup DocPairs(t.right)

\* The three node types of a Push and the three operators.
Hash(h) == [ type |-> "Hash", key |-> NoKey, value |-> NoValue, hash |-> h ]
KVHash(h) == [ type |-> "KVHash", key |-> NoKey, value |-> NoValue, hash |-> h ]
KV(k, v) == [ type |-> "KV", key |-> k, value |-> v, hash |-> nullHash ]
OpPush(node) == [ op |-> "Push", node |-> node ]
OpParent == [ op |-> "Parent", node |-> Null ]
OpChild == [ op |-> "Child", node |-> Null ]

\* Binary search of the node's key in the sorted batch: the index at which it
\* is found, or at which it could be inserted.
searchIndex(batch, key) ==
  Cardinality({ j \in 1..Len(batch) : batch[j] < key }) + 1
foundAt(batch, key, i) == i <= Len(batch) /\ batch[i] = key
leftBatch(batch, i) == SubSeq(batch, 1, i - 1)
rightBatch(batch, key, i) ==
  SubSeq(batch, IF foundAt(batch, key, i) THEN i + 1 ELSE i, Len(batch))

nodeOp_AlwaysKVHash(t, found) ==
  OpPush(KVHash(KVDigest(t.key, t.value)))
nodeOp(t, found) ==
  IF found THEN OpPush(KV(t.key, t.value))
  ELSE OpPush(KVHash(KVDigest(t.key, t.value)))

RECURSIVE prove(_, _)
prove(t, batch) ==
  IF batch = <<>> THEN << OpPush(Hash(DocHash(t))) >>
  ELSE LET i == searchIndex(batch, t.key)
           found == foundAt(batch, t.key, i)
       IN (IF t.left # Null THEN prove(t.left, leftBatch(batch, i)) ELSE <<>>)
          \o << nodeOp(t, found) >>
          \o (IF t.left # Null THEN << OpParent >> ELSE <<>>)
          \o (IF t.right # Null
              THEN prove(t.right, rightBatch(batch, t.key, i)) \o << OpChild >>
              ELSE <<>>)

\* An item of the verification stack: node data and the children attached.
Item(node) == [ node |-> node, left |-> Null, right |-> Null ]

RECURSIVE itemHash(_)
itemHash(it) ==
  IF it = Null THEN nullHash
  ELSE IF it.node.type = "Hash" THEN it.node.hash
  ELSE DocNodeDigest(IF it.node.type = "KV"
                     THEN KVDigest(it.node.key, it.node.value)
                     ELSE it.node.hash,
                     itemHash(it.left), itemHash(it.right))

RECURSIVE itemPairs(_)
itemPairs(it) ==
  IF it = Null THEN {}
  ELSE itemPairs(it.left)
       \cup (IF it.node.type = "KV" THEN {<<it.node.key, it.node.value>>} ELSE {})
       \cup itemPairs(it.right)

Failed(run, op) ==
  [ run EXCEPT !.phase = "done", !.outcome = "fail",
               !.ops = Append(run.ops, op),
               !.todo = IF run.todo = <<>> THEN <<>> ELSE Tail(run.todo) ]
Stepped(run, op, stack) ==
  [ run EXCEPT !.stack = stack, !.ops = Append(run.ops, op),
               !.todo = IF run.todo = <<>> THEN <<>> ELSE Tail(run.todo) ]

\* The next operator of the run is op: the next one of the generated proof, or
\* any operator of a stream that has not reached its bound.
Accepts(op) ==
  /\ stk.phase = "run"
  /\ IF stk.mode = "proof" THEN stk.todo # <<>> /\ Head(stk.todo) = op
     ELSE Len(stk.ops) < MaxOps

execPush(run, op) == Stepped(run, op, Append(run.stack, Item(op.node)))

execParent_Overwrite(run) ==
  LET n == Len(run.stack)
  IN IF n < 2 THEN Failed(run, OpParent)
     ELSE Stepped(run, OpParent,
                  Append(SubSeq(run.stack, 1, n - 2),
                         [ run.stack[n] EXCEPT !.left = run.stack[n - 1] ]))
execParent(run) ==
  LET n == Len(run.stack)
  IN IF n < 2 THEN Failed(run, OpParent)
     ELSE LET parent == run.stack[n]
              child == run.stack[n - 1]
          IN IF parent.left # Null THEN Failed(run, OpParent)
             ELSE Stepped(run, OpParent,
                          Append(SubSeq(run.stack, 1, n - 2),
                                 [ parent EXCEPT !.left = child ]))

execChild(run) ==
  LET n == Len(run.stack)
  IN IF n < 2 THEN Failed(run, OpChild)
     ELSE LET child == run.stack[n]
              parent == run.stack[n - 1]
          IN IF parent.right # Null THEN Failed(run, OpChild)
             ELSE Stepped(run, OpChild,
                          Append(SubSeq(run.stack, 1, n - 2),
                                 [ parent EXCEPT !.right = child ]))

finish(run) ==
  IF Len(run.stack) = 1
  THEN [ run EXCEPT !.phase = "done", !.ended = TRUE, !.outcome = "ok",
                    !.hash = itemHash(run.stack[1]) ]
  ELSE [ run EXCEPT !.phase = "done", !.ended = TRUE, !.outcome = "fail" ]

\* The 11-node tree of the walkthrough.
Leaf(k) == DocNode(k, ValueOf(k), Null, Null)
ExampleTree ==
  DocNode(5, ValueOf(5),
          DocNode(2, ValueOf(2), Leaf(1), DocNode(4, ValueOf(4), Leaf(3), Null)),
          DocNode(9, ValueOf(9),
                  DocNode(7, ValueOf(7), Leaf(6), Leaf(8)),
                  DocNode(11, ValueOf(11), Leaf(10), Null)))
ExampleBatch == <<1, 2, 3, 4>>

Batches == { b \in UNION { [1..n -> SKeys] : n \in 0..StackMaxKey } :
               \A j \in 1..(Len(b) - 1) : b[j] < b[j + 1] }

\* A node generates the proof of a batch of sorted, unique keys.
Prove ==
  /\ stk.phase = "none"
  /\ \E t \in (DocTrees(1, StackMaxKey) \ {Null}) \cup {ExampleTree},
        b \in Batches \cup {ExampleBatch} :
       stk' = [ NoRun EXCEPT !.phase = "run", !.mode = "proof", !.tree = t,
                             !.batch = b, !.todo = prove(t, b) ]
  /\ UNCHANGED <<db, dbRoot, rootNode, lock, proc, last, prf, bat, mk, ids>>

\* A verifier is handed a stream of operators from anywhere.
Stream ==
  /\ stk.phase = "none"
  /\ stk' = [ NoRun EXCEPT !.phase = "run", !.mode = "stream" ]
  /\ UNCHANGED <<db, dbRoot, rootNode, lock, proc, last, prf, bat, mk, ids>>

StreamNodes ==
  { KV(1, ValueOf(1)), KVHash(KVDigest(2, ValueOf(2))), Hash(DocHash(Leaf(3))) }

Push ==
  /\ \E node \in (IF stk.mode = "proof" /\ stk.todo # <<>>
                     /\ Head(stk.todo).op = "Push"
                  THEN {Head(stk.todo).node} ELSE StreamNodes) :
       /\ Accepts(OpPush(node))
       /\ stk' = execPush(stk, OpPush(node))
  /\ UNCHANGED <<db, dbRoot, rootNode, lock, proc, last, prf, bat, mk, ids>>

Parent ==
  /\ Accepts(OpParent)
  /\ stk' = execParent(stk)
  /\ UNCHANGED <<db, dbRoot, rootNode, lock, proc, last, prf, bat, mk, ids>>

Child ==
  /\ Accepts(OpChild)
  /\ stk' = execChild(stk)
  /\ UNCHANGED <<db, dbRoot, rootNode, lock, proc, last, prf, bat, mk, ids>>

EndOfProof ==
  /\ stk.phase = "run"
  /\ stk.mode = "proof" => stk.todo = <<>>
  /\ stk' = finish(stk)
  /\ UNCHANGED <<db, dbRoot, rootNode, lock, proc, last, prf, bat, mk, ids>>

NextStack ==
  \/ Prove
  \/ Stream
  \/ Push
  \/ Parent
  \/ Child
  \/ EndOfProof

SpecStack == Init /\ [][NextStack]_vars

\* C19: the operators generated for a tree and a batch of sorted, unique keys
\* leave the verifier with exactly one stack item, whose hash is the root hash
\* of the tree and whose key/value pairs are those of the keys of the batch
\* that the tree holds; for the 11-node tree and keys 1, 2, 3, 4 they are
\* PushKv(1), PushKv(2), Parent, PushKv(3), PushKv(4), Parent, Child,
\* PushKvHash(5), Parent, PushHash(9), Child.
C19_KeySetProofRoundTrip ==
  /\ (stk.mode = "proof" /\ stk.phase = "done") =>
       /\ stk.outcome = "ok"
       /\ Len(stk.stack) = 1
       /\ stk.hash = DocHash(stk.tree)
       /\ itemPairs(stk.stack[1]) =
            { kv \in DocPairs(stk.tree) :
                \E j \in 1..Len(stk.batch) : stk.batch[j] = kv[1] }
  /\ (stk.mode = "proof" /\ stk.tree = ExampleTree /\ stk.batch = ExampleBatch) =>
       stk.ops \o stk.todo =
         << OpPush(KV(1, ValueOf(1))), OpPush(KV(2, ValueOf(2))), OpParent,
            OpPush(KV(3, ValueOf(3))), OpPush(KV(4, ValueOf(4))), OpParent,
            OpChild,
            OpPush(KVHash(KVDigest(5, ValueOf(5)))), OpParent,
            OpPush(Hash(DocHash(ExampleTree.right))), OpChild >>

C19_Witness ==
  /\ stk.mode = "proof" /\ stk.phase = "done" /\ stk.outcome = "ok"
  /\ stk.tree = ExampleTree /\ stk.batch = ExampleBatch
  /\ Len(stk.ops) = 11

\* The three situations in which verification fails, for the operator that
\* a step ran on the stack it found.
Underflow(stack, op) == op.op \in {"Parent", "Child"} /\ Len(stack) < 2
Overwrite(stack, op) ==
  /\ Len(stack) >= 2
  /\ \/ op.op = "Parent" /\ stack[Len(stack)].left # Null
     \/ op.op = "Child" /\ stack[Len(stack) - 1].right # Null

\* C20: a step of the verifier fails exactly when a Parent or Child finds
\* fewer than two items on the stack, when a Parent (a Child) would overwrite
\* a left (right) child that is already attached, or when the proof ends with
\* a number of stack items other than one; otherwise the run goes on, or ends
\* with the hash of the single remaining item.
C20_VerifierFailsExactly ==
  [][ (stk.phase = "run" /\ stk' # stk) =>
        IF stk'.ended
        THEN /\ (stk'.outcome = "fail") <=> (Len(stk.stack) # 1)
             /\ (stk'.outcome # "fail") =>
                  stk'.outcome = "ok" /\ stk'.hash = itemHash(stk.stack[1])
        ELSE LET op == stk'.ops[Len(stk'.ops)]
             IN /\ (stk'.outcome = "fail") <=>
                     (Underflow(stk.stack, op) \/ Overwrite(stk.stack, op))
                /\ (stk'.outcome # "fail") =>
                     stk'.phase = "run" /\ stk'.outcome = "none"
                     /\ Len(stk'.stack) =
                          Len(stk.stack) + (IF op.op = "Push" THEN 1 ELSE -1)
    ]_vars

C20_Witness ==
  /\ stk.mode = "stream" /\ stk.phase = "done" /\ stk.outcome = "fail"
  /\ ~stk.ended
  /\ Len(stk.stack) >= 2
  /\ stk.ops[Len(stk.ops)].op = "Parent"
  /\ stk.stack[Len(stk.stack)].left # Null

----------------------------------------------------------------------------
\* docs/algorithms.md, "Concurrent Batch Operator": a batch of Put and Delete
\* operations, sorted by key with every key once, applied to a tree by
\* recursion on its nodes.

BatchMaxKey == 7      \* keys of the operations of a batch
BatchTreeKey == 3     \* number of keys the tree a batch is applied to may hold
BatchLow == 3         \* the least of them

RECURSIVE DocHeight(_)
DocHeight(t) ==
  IF t = Null THEN 0 ELSE 1 + Max(DocHeight(t.left), DocHeight(t.right))

DocBalance(t) == DocHeight(t.right) - DocHeight(t.left)

\* "If after recursing the left and right subtrees are unbalanced (their
\* heights differ by more than 1), perform an AVL tree rotation (possibly
\* more than one)": the rotation of the node, after the opposite rotation of
\* its heavy child when that child leans the other way; the demoted node and
\* the new subtree root are balanced in their turn, so that a join of
\* subtrees whose heights differ by more than 2 ends balanced as well.
RECURSIVE docBalance(_)

\* A rotation: the child on the heavy side takes the place of the node.
docRotate(t, left) ==
  IF left
  THEN LET c == t.left
       IN docBalance(DocNode(c.key, c.value, c.left,
                       docBalance(DocNode(t.key, t.value, c.right, t.right))))
  ELSE LET c == t.right
       IN docBalance(DocNode(c.key, c.value,
                       docBalance(DocNode(t.key, t.value, t.left, c.left)),
                       c.right))

docBalance(t) ==
  IF t = Null \/ Abs(DocBalance(t)) <= 1 THEN t
  ELSE LET left == DocBalance(t) < 0
           c == IF left THEN t.left ELSE t.right
           double == IF left THEN DocBalance(c) > 0 ELSE DocBalance(c) < 0
           t1 == IF ~double THEN t
                 ELSE IF left
                 THEN DocNode(t.key, t.value, docRotate(c, FALSE), t.right)
                 ELSE DocNode(t.key, t.value, t.left, docRotate(c, TRUE))
       IN docRotate(t1, left)

\* The single-key put: a new leaf in the empty slot, or a new value for the
\* key, and the balance of every node on the way back.
RECURSIVE docPut(_, _, _)
docPut(t, k, v) ==
  IF t = Null THEN DocNode(k, v, Null, Null)
  ELSE IF k = t.key THEN DocNode(t.key, v, t.left, t.right)
  ELSE IF k < t.key
  THEN docBalance(DocNode(t.key, t.value, docPut(t.left, k, v), t.right))
  ELSE docBalance(DocNode(t.key, t.value, t.left, docPut(t.right, k, v)))

\* The extreme node of a subtree is detached: its key and value, and the
\* subtree that is left, balanced on the way back.
RECURSIVE detachEdge(_, _)
detachEdge(t, left) ==
  LET next == IF left THEN t.left ELSE t.right
  IN IF next = Null
     THEN [ key |-> t.key, value |-> t.value,
            rest |-> IF left THEN t.right ELSE t.left ]
     ELSE LET d == detachEdge(next, left)
          IN [ d EXCEPT !.rest =
                 docBalance(IF left THEN DocNode(t.key, t.value, d.rest, t.right)
                            ELSE DocNode(t.key, t.value, t.left, d.rest)) ]

\* "perform a traditional BST node removal": a node with two children is
\* replaced by the extreme node of its taller subtree (the left one on a tie).
docRemove(t) ==
  IF t.left = Null THEN t.right
  ELSE IF t.right = Null THEN t.left
  ELSE IF DocHeight(t.left) >= DocHeight(t.right)
  THEN LET d == detachEdge(t.left, FALSE)
       IN DocNode(d.key, d.value, d.rest, t.right)
  ELSE LET d == detachEdge(t.right, TRUE)
       IN DocNode(d.key, d.value, t.left, d.rest)

BatchOp(k, o, v) == [ key |-> k, op |-> o, value |-> v ]
BatchKeys(batch) == [ j \in 1..Len(batch) |-> batch[j].key ]

\* A batch that reaches an empty slot: its Puts are put one by one, in key
\* order; its Deletes find nothing to delete.
RECURSIVE build(_, _)
build(t, batch) ==
  IF batch = <<>> THEN t
  ELSE build(IF Head(batch).op = "Put"
             THEN docPut(t, Head(batch).key, Head(batch).value) ELSE t,
             Tail(batch))

\* "Left batch from batch start to index i"; "Right batch from index i + 1
\* to the end of the batch" when the key was found, "from index i" when not
opLeft_Whole(batch, i) == batch
opLeft(batch, i) == SubSeq(batch, 1, i - 1)
opRight_KeepsFound(batch, i, found) == SubSeq(batch, i, Len(batch))
opRight(batch, i, found) ==
  SubSeq(batch, IF found THEN i + 1 ELSE i, Len(batch))

RECURSIVE apply(_, _)
apply(t, batch) ==
  IF batch = <<>> THEN t
  ELSE IF t = Null THEN build(Null, batch)
  ELSE LET i == searchIndex(BatchKeys(batch), t.key)
           found == foundAt(BatchKeys(batch), t.key, i)
           value == IF found /\ batch[i].op = "Put" THEN batch[i].value
                    ELSE t.value
           l == apply(t.left, opLeft(batch, i))
           r == apply(t.right, opRight(batch, i, found))
           joined == DocNode(t.key, value, l, r)
       IN docBalance(IF found /\ batch[i].op = "Delete"
                     THEN docRemove(joined) ELSE joined)

RECURSIVE IsAVL(_)
IsAVL(t) ==
  t = Null \/ (Abs(DocBalance(t)) <= 1 /\ IsAVL(t.left) /\ IsAVL(t.right))

RECURSIVE IsBST(_, _, _)
IsBST(t, lo, hi) ==
  t = Null \/ ( /\ lo < t.key /\ t.key < hi
                /\ IsBST(t.left, lo, t.key) /\ IsBST(t.right, t.key, hi) )

NewValue(k) == k + BatchMaxKey

\* the batches over the keys 1..BatchMaxKey: for every key a Put, a Delete
\* or nothing, in key order
RECURSIVE batchOf(_, _)
batchOf(f, k) ==
  IF k > BatchMaxKey THEN <<>>
  ELSE (IF f[k] = "none" THEN <<>>
        ELSE << BatchOp(k, f[k], IF f[k] = "Put" THEN NewValue(k) ELSE NoValue) >>)
       \o batchOf(f, k + 1)

\* apply_unchecked(batch) is called on a tree
Submit ==
  /\ bat.phase = "none"
  /\ \E t \in { u \in DocTrees(BatchLow, BatchLow + BatchTreeKey - 1) : IsAVL(u) },
        f \in [1..BatchMaxKey -> {"none", "Put", "Delete"}] :
       bat' = [ NoBatch EXCEPT !.phase = "submitted", !.tree = t,
                               !.batch = batchOf(f, 1) ]
  /\ UNCHANGED <<db, dbRoot, rootNode, lock, proc, last, prf, stk, mk, ids>>

\* the recursion runs on the root and returns the new root
ApplyBatch ==
  /\ bat.phase = "submitted"
  /\ bat' = [ bat EXCEPT !.phase = "applied",
                         !.result = apply(bat.tree, bat.batch) ]
  /\ UNCHANGED <<db, dbRoot, rootNode, lock, proc, last, prf, stk, mk, ids>>

NextBatch ==
  \/ Submit
  \/ ApplyBatch

SpecBatch == Init /\ [][NextBatch]_vars

\* the dataset after the operations were applied one by one, in key order
RECURSIVE OneByOne(_, _)
OneByOne(pairs, batch) ==
  IF batch = <<>> THEN pairs
  ELSE OneByOne({ kv \in pairs : kv[1] # Head(batch).key }
                  \cup (IF Head(batch).op = "Put"
                        THEN {<<Head(batch).key, Head(batch).value>>} ELSE {}),
                Tail(batch))

RECURSIVE frames(_, _)
frames(t, batch) ==
  IF batch = <<>> \/ t = Null THEN {}
  ELSE LET i == searchIndex(BatchKeys(batch), t.key)
           found == foundAt(BatchKeys(batch), t.key, i)
       IN {[t |-> t, batch |-> batch]}
            \cup frames(t.left, opLeft(batch, i))
            \cup frames(t.right, opRight(batch, i, found))

DocKeys(t) == { kv[1] : kv \in DocPairs(t) }

\* the nodes a recursion may read or write: those of the subtree it is
\* given and those of the subtree it returns
Footprint(t, batch) == DocKeys(t) \cup DocKeys(apply(t, batch))

----------------------------------------------------------------------------
\* Reads that run while a mutation is in flight: one caller mutates, the
\* other reads.

Reader == "p2"
ReadOps == {"get", "search", "hash", "range"}

\* a caller invokes tree.get(key) (of the key-addressed Tree: "get", of the
\* ID-addressed Tree: "search"), tree.rootHash() or
\* tree.getBranchRange(from, to)
CallRead(p, K) ==
  /\ proc[p].pc = "idle"
  /\ \E o \in ReadOps, k \in K, to \in K :
       /\ o # "range" => to = k
       /\ k <= to
       /\ proc' = [proc EXCEPT ![p] =
                     [Idle EXCEPT !.pc = "init", !.op = o, !.key = k,
                                  !.val = IF o = "range" THEN <<to>> ELSE <<>>]]
  /\ UNCHANGED <<db, dbRoot, rootNode, lock, last, prf, stk, bat, mk, ids>>

\* Node.search(key) of the ID-addressed Node: the receiver itself when it has
\* the key or no child on the key's side, otherwise the search of that child,
\* which is read from the store
RECURSIVE search(_, _, _)
search(store, this, key) ==
  IF key = this.key THEN [node |-> this, err |-> NoErr]
  ELSE LET childKey == ChildKey(this, key < this.key)
       IN IF childKey = NoKey THEN [node |-> this, err |-> NoErr]
          ELSE IF store[childKey] = NoRec
          THEN [node |-> Null, err |-> "NotFoundError"]
          ELSE search(store, decode(childKey, store[childKey]), key)

\* Tree.get of the ID-addressed Tree after `await this.initialize`: null for
\* an empty tree, otherwise the search from the in-memory root object
Tree_get_search(p) ==
  /\ proc[p].pc = "init" /\ proc[p].op = "search"
  /\ IF rootNode = Null
     THEN proc' = [proc EXCEPT ![p].pc = "done", ![p].res = "ok"]
     ELSE LET r == search(db, rootNode, proc[p].key)
          IN IF r.err # NoErr
             THEN proc' = [proc EXCEPT ![p].pc = "done", ![p].res = r.err]
             ELSE IF r.node.key # proc[p].key
             THEN proc' = [proc EXCEPT ![p].pc = "done", ![p].res = "KeyNotFound"]
             ELSE proc' = [proc EXCEPT ![p].pc = "done", ![p].res = "ok",
                                       ![p].got = <<r.node.value>>]
  /\ UNCHANGED <<db, dbRoot, rootNode, lock, last, prf, stk, bat, mk, ids>>

\* Tree.rootHash(): null or the hash field of the in-memory root object
Tree_rootHash(p) ==
  /\ proc[p].pc = "init" /\ proc[p].op = "hash"
  /\ proc' = [proc EXCEPT ![p].pc = "done", ![p].res = "ok",
                          ![p].got = <<rootHash(rootNode)>>]
  /\ UNCHANGED <<db, dbRoot, rootNode, lock, last, prf, stk, bat, mk, ids>>

\* Tree.getBranchRange after `await this.initialize`: acquireLock
Tree_getBranchRange(p) ==
  /\ proc[p].pc = "init" /\ proc[p].op = "range"
  /\ acquireLock(p)
  /\ UNCHANGED <<db, dbRoot, rootNode, last, prf, stk, bat, mk, ids>>

\* Tree.getBranchRange from the return of acquireLock: the call on the root
\* object throws a TypeError for an empty tree, before release(); otherwise
\* the lock is released and the branch returned
Tree_getBranchRange_body(p) ==
  /\ proc[p].pc = "locked" /\ proc[p].op = "range"
  /\ IF rootNode = Null
     THEN /\ proc' = [proc EXCEPT ![p].pc = "threw", ![p].res = "TypeError"]
          /\ lock' = lock
     ELSE /\ lock' = FALSE
          /\ proc' = [q \in Procs |->
                        IF q = p
                        THEN [proc[q] EXCEPT !.pc = "done", !.res = "ok",
                                !.got = <<getBranchRange(db, rootNode, proc[p].key,
                                                         proc[p].val[1])>>]
                        ELSE IF proc[q].pc = "wait" THEN [proc[q] EXCEPT !.woken = TRUE]
                        ELSE proc[q]]
  /\ UNCHANGED <<db, dbRoot, rootNode, last, prf, stk, bat, mk, ids>>

NextRead ==
  \/ Call(SeqProc, 1..ConcMaxKey, {1, MaxVal})
  \/ Tree_put(SeqProc)
  \/ Tree_del(SeqProc)
  \/ Tree_put_body(SeqProc)
  \/ Tree_del_body(SeqProc)
  \/ setRoot(SeqProc)
  \/ commit(SeqProc)
  \/ commit_fail(SeqProc)
  \/ releaseLock(SeqProc)
  \/ CallRead(Reader, 1..ConcMaxKey)
  \/ Tree_get(Reader)
  \/ Tree_get_search(Reader)
  \/ Tree_rootHash(Reader)
  \/ Tree_getBranchRange(Reader)
  \/ Tree_getBranchRange_body(Reader)
  \/ \E p \in Procs :
       \/ acquireLock_retry(p)
       \/ Settle(p)

SpecRead == Init /\ [][NextRead]_vars

\* C22: Tree.get, Tree.rootHash and Tree.getBranchRange neither acquire the
\* lock nor wait for it.
C22_ReadersTakeNoLock ==
  \A p \in Procs :
    proc[p].op \in ReadOps => proc[p].pc \notin {"wait", "locked"}

\* C23: a Tree.get that runs while a put or a delete is in flight returns the
\* value of the last committed put of its key, and reports the key as absent
\* only when no put of it is committed or a delete of it was committed last.
C23_ReadsSeeCommitted ==
  [][ \A p \in Procs :
        ( /\ proc[p].pc = "init" /\ proc[p].op \in {"get", "search"}
          /\ proc'[p].pc = "done" )
        => /\ proc'[p].res = "ok" => proc'[p].got = last[proc[p].key]
           /\ proc'[p].res # "ok" =>
                /\ proc'[p].res \in {"KeyNotFound", "NotFoundError"}
                /\ last[proc[p].key] = <<>> ]_vars

\* C36: the write lock is always released: whenever a put or a delete holds
\* the lock, the lock is free again later, whatever way the call ends, so
\* that a caller waiting in acquireLock can take it.
C36_LockAlwaysReleased == lock ~> ~lock

\* the root hash of the committed state: the hash of the persisted record no
\* persisted record links to, nullHash for a store without records
CommittedRootHash ==
  LET roots == {k \in Persisted : \A j \in Persisted : k \notin DbLinks(j)}
  IN IF roots = {} THEN nullHash ELSE db[CHOOSE k \in roots : TRUE].hash

\* C38: Tree.rootHash() returns the root hash of a committed state only, also
\* while a put or a delete is in flight and after one has failed.
C38_RootHashCommittedOnly ==
  [][ ( /\ proc[Reader].pc = "init" /\ proc[Reader].op = "hash"
        /\ proc'[Reader].pc = "done" )
      => proc'[Reader].got = <<CommittedRootHash>> ]_vars

----------------------------------------------------------------------------
\* merk.js: the Mutations of a merk object, rollback and commit.  wrap
\* reports every change of the object as mutation records: a change of a
\* non-object property as a put of the object that holds it, an assigned
\* object as a put of itself and of every object nested in it (outermost
\* first), a deleted object as a del of every object nested in it (innermost
\* first) and of itself.  The values of the records are base objects.

Up(path) == SubSeq(path, 1, Len(path) - 1)
Below(path) == { q \in MPaths : Len(q) > Len(path) /\ SubSeq(q, 1, Len(path)) = path }
Mutation(o, path, old, new, e) ==
  [ op |-> o, path |-> path, oldValue |-> old, newValue |-> new, existed |-> e ]

\* baseObject(obj): the for-in loop copies the non-object properties; over
\* a Symbol it runs no iteration and the result is {}
baseObject(v) == IF v.kind = "obj" THEN Obj(v.base) ELSE Obj(0)

\* Mutations.ancestor(path): the before-value of the nearest proper ancestor
\* below the root that has one, undefined when there is none
ancestor(before, path) ==
  LET found == { i \in 1..(Len(path) - 1) :
                   before[SubSeq(path, 1, Len(path) - i)] # Gone }
  IN IF found = {} THEN Gone
     ELSE before[SubSeq(path, 1,
                        Len(path) - (CHOOSE i \in found : \A j \in found : i <= j))]

Without(seq, x) == SelectSeq(seq, LAMBDA y : y # x)

\* Mutations.mutate(mutation).  order lists the string keys of before in
\* the order of their insertion.  The values of after are base objects, so
\* the loop over the object-valued properties of after[key] has no iteration.
mutate(m, rec) ==
  LET key == rec.path
      value == IF rec.existed THEN rec.oldValue ELSE DeleteSym
      record == m.before[key] = Gone /\ ancestor(m.before, key) # DeleteSym
      before1 == IF record THEN [m.before EXCEPT ![key] = baseObject(value)]
                 ELSE m.before
      order1 == IF record /\ key # <<>> THEN Append(m.order, key) ELSE m.order
      keyIsNew == before1[key] = DeleteSym
      parentWasDeleted == ancestor(before1, key) = DeleteSym
  IN IF rec.op = "put"
     THEN [m EXCEPT !.before = before1, !.order = order1,
                    !.after[key] = rec.newValue]
     ELSE IF keyIsNew \/ parentWasDeleted
     THEN [m EXCEPT !.before = [before1 EXCEPT ![key] = Gone],
                    !.order = Without(order1, key),
                    !.after[key] = Gone]
     ELSE [m EXCEPT !.before = before1, !.order = order1,
                    !.after[key] = DeleteSym]

RECURSIVE mutateAll(_, _)
mutateAll(m, recs) ==
  IF recs = <<>> THEN m ELSE mutateAll(mutate(m, Head(recs)), Tail(recs))

\* the objects at and below path, outermost first
RECURSIVE Outermost(_, _)
Outermost(o, path) ==
  IF path \notin MPaths \/ o[path] = Gone THEN <<>>
  ELSE <<path>> \o Outermost(o, SubSeq(Names, 1, Len(path) + 1))

\* obj.a.b.x = 5 (v = 1), or delete obj.a.b.x (v = 0)
SetPrim ==
  /\ mk.err = NoErr
  /\ \E path \in MPaths, v \in Bases :
       /\ mk.obj[path] # Gone
       /\ mk' = [ mutateAll(mk, << Mutation("put", path, mk.obj[path], Obj(v), TRUE) >>)
                    EXCEPT !.obj[path] = Obj(v), !.log = {} ]
  /\ UNCHANGED <<db, dbRoot, rootNode, lock, proc, last, prf, stk, bat, ids>>

\* obj.a.b = {x: v, c: {x: v, ...}}: an object literal, nested down to depth
\* d, assigned to a property that is not there or holds an object without
\* objects nested in it
SetObject ==
  /\ mk.err = NoErr
  /\ \E path \in MPaths \ {<<>>}, d \in 1..MaxDepth, v \in Bases :
       /\ mk.obj[Up(path)] # Gone
       /\ \A q \in Below(path) : mk.obj[q] = Gone
       /\ Len(path) <= d
       /\ mk.obj[path] # Gone => d = Len(path)
       /\ LET new == { q \in MPaths : Len(path) <= Len(q) /\ Len(q) <= d }
              recs == [ i \in 1..(d - Len(path) + 1) |->
                          Mutation("put", SubSeq(Names, 1, Len(path) + i - 1),
                                   IF i = 1 THEN mk.obj[path] ELSE Gone, Obj(v),
                                   i = 1 /\ mk.obj[path] # Gone) ]
          IN mk' = [ mutateAll(mk, recs)
                       EXCEPT !.obj = [q \in MPaths |->
                                         IF q \in new THEN Obj(v) ELSE mk.obj[q]],
                              !.log = {} ]
  /\ UNCHANGED <<db, dbRoot, rootNode, lock, proc, last, prf, stk, bat, ids>>

\* delete obj.a.b, where obj.a.b is an object
DeleteObject ==
  /\ mk.err = NoErr
  /\ \E path \in MPaths \ {<<>>} :
       /\ mk.obj[path] # Gone
       /\ LET gone == Reverse(Outermost(mk.obj, path))
              recs == [ i \in 1..Len(gone) |->
                          Mutation("del", gone[i], mk.obj[gone[i]], Gone, TRUE) ]
          IN mk' = [ mutateAll(mk, recs)
                       EXCEPT !.obj = [q \in MPaths |->
                                         IF q = path \/ q \in Below(path) THEN Gone
                                         ELSE mk.obj[q]],
                              !.log = {} ]
  /\ UNCHANGED <<db, dbRoot, rootNode, lock, proc, last, prf, stk, bat, ids>>

\* stringify(value) / parse(json) of json.js: the JSON text of a base object
stringify(v) == [ json |-> v.base ]
parse(json) == Obj(json.json)

\* access(obj, path)[0], called with the path of the parent of a key: the
\* object there, undefined (Gone) when only the last step finds nothing; the
\* call throws when an earlier step does
access(o, path) ==
  IF path # <<>> /\ o[Up(path)] = Gone
  THEN [ value |-> Gone, err |-> "AccessError" ]
  ELSE [ value |-> o[path], err |-> NoErr ]

\* the body of the loop of rollback for one key of before: the old value is
\* assigned to (or the property deleted from) the parent object; an assigned
\* base object has no objects nested in it
rollbackKey(o, key, value) ==
  LET parent == access(o, Up(key))
  IN IF parent.err # NoErr THEN [ obj |-> o, err |-> parent.err ]
     ELSE IF parent.value = Gone THEN [ obj |-> o, err |-> "TypeError" ]
     ELSE [ obj |-> [q \in MPaths |->
                       IF q = key
                       THEN (IF value = DeleteSym THEN Gone ELSE value)
                       ELSE IF q \in Below(key) THEN Gone
                       ELSE o[q]],
            err |-> NoErr ]

\* for (let key in mutations.before): the string keys in insertion order;
\* the key symbols.root is a Symbol, which for-in does not enumerate
RECURSIVE rollbackKeys(_, _, _)
rollbackKeys(o, before, keys) ==
  IF keys = <<>> THEN [ obj |-> o, err |-> NoErr ]
  ELSE LET r == rollbackKey(o, Head(keys), before[Head(keys)])
       IN IF r.err # NoErr THEN r ELSE rollbackKeys(r.obj, before, Tail(keys))

\* rollback(root): mutations.reset() is reached when no assignment threw
Rollback ==
  /\ mk.err = NoErr
  /\ LET r == rollbackKeys(mk.obj, mk.before, mk.order)
     IN mk' = IF r.err # NoErr
              THEN [ mk EXCEPT !.obj = r.obj, !.err = r.err, !.log = {} ]
              ELSE [ mk EXCEPT !.obj = r.obj, !.log = {},
                               !.before = NoMerk.before, !.order = <<>>,
                               !.after = NoMerk.after ]
  /\ UNCHANGED <<db, dbRoot, rootNode, lock, proc, last, prf, stk, bat, ids>>

\* Object.keys(mutations.after), and symbols.root when after has it
mutationKeys_NoRoot(after) == { q \in MPaths \ {<<>>} : after[q] # Gone }
mutationKeys(after) ==
  { q \in MPaths \ {<<>>} : after[q] # Gone }
    \cup (IF after[<<>>] # Gone THEN {<<>>} ELSE {})

\* prefixedKey: '.' for the root, '.' and the joined path for another key
prefixedKey(key) == <<".">> \o key

\* the call on the db that commit issues for a key
dbOp(after, key) ==
  IF after[key] = DeleteSym
  THEN [ op |-> "del", key |-> prefixedKey(key), value |-> NoRec ]
  ELSE [ op |-> "put", key |-> prefixedKey(key), value |-> stringify(after[key]) ]

\* commit(root): one db.put or db.del per key of after, all awaited, then
\* mutations.reset()
Commit ==
  /\ mk.err = NoErr
  /\ LET ops == { dbOp(mk.after, key) : key \in mutationKeys(mk.after) }
     IN mk' = [ mk EXCEPT
                  !.log = ops,
                  !.fresh = FALSE,
                  !.committed = mk.obj,
                  !.before = NoMerk.before, !.order = <<>>,
                  !.after = NoMerk.after ]
  /\ UNCHANGED <<db, dbRoot, rootNode, lock, proc, last, prf, stk, bat, ids>>

NextMerk ==
  \/ SetPrim
  \/ SetObject
  \/ DeleteObject
  \/ Rollback
  \/ Commit

SpecMerk == Init /\ [][NextMerk]_vars

\* C25: rollback leaves the object equal to its state at the last commit (or
\* at its creation) and leaves before and after empty.
C25_RollbackRestoresCommit ==
  [][ Rollback =>
        /\ mk'.err = NoErr
        /\ mk'.obj = mk.committed
        /\ mk'.before = NoMerk.before /\ mk'.after = NoMerk.after ]_vars

NoMutations == mk.before = NoMerk.before /\ mk.after = NoMerk.after

\* C26: commit issues one db.put of the '.'-prefixed key with the JSON of the
\* value for every key with an after-value, one db.del when that value is
\* the delete marker, and nothing else; it leaves the object unchanged and
\* before and after empty, and the mutation that follows records the
\* committed value of its key as the before-value.
C26_CommitPersistsNetChanges ==
  [][ /\ Commit =>
           /\ mk'.log =
                { [ op |-> "put", key |-> <<".">> \o q,
                    value |-> [ json |-> mk.after[q].base ] ] :
                    q \in { r \in MPaths : mk.after[r].kind = "obj" } }
                \cup { [ op |-> "del", key |-> <<".">> \o q, value |-> NoRec ] :
                         q \in { r \in MPaths : mk.after[r].kind = "delete" } }
           /\ mk'.obj = mk.obj
           /\ mk'.before = NoMerk.before /\ mk'.after = NoMerk.after
      /\ (mk.log # {} /\ ~Commit) =>
           \A q \in MPaths :
             (mk'.before[q] # Gone /\ mk.committed[q] # Gone)
               => mk'.before[q] = mk.committed[q] ]_vars

\* a commit has put the root and a nested object and deleted another one
C26_Witness ==
  /\ NoMutations
  /\ \E c \in mk.log : c.op = "put" /\ c.key = <<".">>
  /\ \E c \in mk.log : c.op = "put" /\ Len(c.key) > 1
  /\ \E c \in mk.log : c.op = "del"

\* C27: a key that did not exist at the last commit and was put and then
\* deleted has no entry in before or after, nor has any of its descendants;
\* a key that did exist keeps its committed value in before.
C27_CreateThenDeleteCancels ==
  mk.err = NoErr =>
    \A q \in MPaths \ {<<>>} :
      /\ (mk.committed[q] = Gone /\ mk.obj[q] = Gone)
           => (mk.before[q] = Gone /\ mk.after[q] = Gone)
      /\ (mk.committed[q] # Gone /\ mk.before[q] # Gone)
           => mk.before[q] = mk.committed[q]

\* the paths of the records of a store in the order of their keys: '.',
\* '.foo', '.foo.y', ...
RECURSIVE InKeyOrder(_, _)
InKeyOrder(store, d) ==
  IF d > MaxDepth THEN <<>>
  ELSE (IF store[SubSeq(Names, 1, d)] = NoRec THEN <<>>
        ELSE << SubSeq(Names, 1, d) >>) \o InKeyOrder(store, d + 1)

\* the loop of load: the value of every further record is assigned to its
\* parent object, which access finds in the object built so far
RECURSIVE loadRest(_, _, _)
loadRest(store, root, keys) ==
  IF keys = <<>> THEN [ obj |-> root, err |-> NoErr ]
  ELSE LET path == Head(keys)
           parent == access(root, Up(path))
       IN IF parent.err # NoErr THEN [ obj |-> root, err |-> parent.err ]
          ELSE IF parent.value = Gone THEN [ obj |-> root, err |-> "TypeError" ]
          ELSE loadRest(store, [root EXCEPT ![path] = parse(store[path])],
                        Tail(keys))

\* load(tree): {} without a root node; otherwise the value of the least
\* record is the root object and the loop runs over the records after it
load(store) ==
  LET keys == InKeyOrder(store, 0)
  IN IF keys = <<>> THEN [ obj |-> NoMerk.obj, err |-> NoErr ]
     ELSE loadRest(store, [NoMerk.obj EXCEPT ![<<>>] = parse(store[Head(keys)])],
                   Tail(keys))

\* the records of a db that was empty before the calls of a commit
storeOf(ops) ==
  [ q \in MPaths |->
      IF \E c \in ops : c.op = "put" /\ c.key = prefixedKey(q)
      THEN (CHOOSE c \in ops : c.op = "put" /\ c.key = prefixedKey(q)).value
      ELSE NoRec ]

\* C28: a merk object created over a store that holds a committed state is
\* equal to the committed object, nested objects included, also when the
\* store has no record of the root object.
C28_LoadRoundTrips ==
  [][ (Commit /\ mk.fresh) =>
        load(storeOf(mk'.log)) = [ obj |-> mk'.committed, err |-> NoErr ] ]_vars

-----------------------------------------------------------------------------
(***************************************************************************)
(* ID-addressed mode: a node record is stored under n<id>, the Node        *)
(* factory hands out the IDs and ':idCounter' persists the next one.  The  *)
(* model keeps the records under their keys and the ID of each in          *)
(* ids.idOf; ids.newId is the ID of the node the running put constructed.  *)
(***************************************************************************)

\* mutant: the incremented counter is not staged in the transaction
nextID_NotStaged(s) ==
  [s EXCEPT !.idCounter = s.idCounter + 1, !.newId = s.idCounter,
            !.assigned = s.assigned \cup {s.idCounter},
            !.mine = s.mine \cup {s.idCounter}]

\* nextID(tx), called by the constructor of a node that has no ID:
\* `let id = idCounter++; tx.put(':idCounter', idCounter); return id`
nextID(s) ==
  [s EXCEPT !.idCounter = s.idCounter + 1, !.staged = s.idCounter + 1,
            !.newId = s.idCounter,
            !.assigned = s.assigned \cup {s.idCounter},
            !.mine = s.mine \cup {s.idCounter}]

\* a caller invokes tree.put(key, value) or tree.del(key) of a tree whose
\* `initialize` promise resolved
IdCall(p) ==
  /\ ids.loaded
  /\ proc[p].pc = "idle"
  /\ \E o \in {"put", "del"}, k \in 1..IdMaxKey :
       /\ o = "put" => ids.idCounter <= MaxId
       /\ proc' = [proc EXCEPT ![p] =
                     [Idle EXCEPT !.pc = "init", !.op = o, !.key = k,
                                  !.val = IF o = "put" THEN <<1>> ELSE <<>>]]
  /\ UNCHANGED <<db, dbRoot, rootNode, lock, last, prf, stk, bat, mk, ids>>

\* Tree.put from the return of acquireLock up to the call of setRoot:
\* `new this.Node({ key, value }, tx)` takes the next ID, also when the key
\* is in the tree already
IdTree_put_body(p) ==
  /\ proc[p].pc = "locked" /\ proc[p].op = "put"
  /\ ids' = nextID(ids)
  /\ LET tx == createTx(db)
         node == NewNode(proc[p].key, proc[p].val[1])
     IN IF rootNode = Null
        THEN /\ proc' = [proc EXCEPT ![p].pc = "setroot", ![p].succ = node,
                                     ![p].old = rootNode,
                                     ![p].writes = putNode(tx, node).writes]
             /\ rootNode' = rootNode
        ELSE LET r == Node_put(tx, rootNode, node)
             IN /\ rootNode' = r.self
                /\ IF r.err # NoErr
                   THEN proc' = [proc EXCEPT ![p].pc = "threw", ![p].res = r.err,
                                             ![p].old = rootNode]
                   ELSE proc' = [proc EXCEPT ![p].pc = "setroot", ![p].succ = r.ret,
                                             ![p].old = rootNode,
                                             ![p].writes = r.tx.writes]
  /\ UNCHANGED <<db, dbRoot, lock, last, prf, stk, bat, mk>>

\* Tree.setRoot(node, tx) of the ID-addressed tree: `node.id` of no node
\* throws; the same root ID returns at once; otherwise ':root' is written
\* with this.db, not with tx
IdSetRoot(p) ==
  /\ proc[p].pc = "setroot"
  /\ IF proc[p].succ = Null
     THEN /\ proc' = [proc EXCEPT ![p].pc = "threw", ![p].res = "TypeError"]
          /\ UNCHANGED <<dbRoot, rootNode>>
     ELSE /\ dbRoot' = IF rootNode # Null /\ rootNode.key = proc[p].succ.key
                       THEN dbRoot ELSE proc[p].succ.key
          /\ rootNode' = proc[p].succ
          /\ proc' = [proc EXCEPT ![p].pc = "commit"]
  /\ UNCHANGED <<db, lock, last, prf, stk, bat, mk, ids>>

\* tx.commit(): the node records and ':idCounter' reach the store together
IdCommit(p) ==
  /\ proc[p].pc = "commit"
  /\ db' = TxApply(db, proc[p].writes)
  /\ last' = [last EXCEPT ![proc[p].key] = proc[p].val]
  /\ proc' = [proc EXCEPT ![p].pc = "release", ![p].writes = EmptyWrites]
  /\ LET idOf == [k \in Keys |->
                   IF db'[k] = NoRec THEN 0
                   ELSE IF db[k] = NoRec THEN ids.newId ELSE ids.idOf[k]]
     IN ids' = [ids EXCEPT
                  !.dbCounter = IF ids.staged # 0 THEN ids.staged ELSE @,
                  !.idOf = idOf, !.staged = 0, !.newId = 0,
                  !.persisted = @ \cup ({idOf[k] : k \in Keys} \ {0})]
  /\ UNCHANGED <<dbRoot, rootNode, lock, prf, stk, bat, mk>>

\* tx.commit() rejects: neither the records nor ':idCounter' reach the store
IdCommit_fail(p) ==
  /\ proc[p].pc = "commit"
  /\ proc' = [proc EXCEPT ![p].pc = "threw", ![p].res = "CommitError",
                          ![p].writes = EmptyWrites]
  /\ ids' = [ids EXCEPT !.staged = 0, !.newId = 0]
  /\ UNCHANGED <<db, dbRoot, rootNode, lock, last, prf, stk, bat, mk>>

\* the process ends wherever it is and `new Tree(db)` opens the store again:
\* maybeLoad reads ':idCounter' (1 when there is none) and ':root', and
\* rejects when the record ':root' names is not in the store
Reopen ==
  /\ ids.persisted # {} \/ ids.assigned # {}
  /\ LET found == ~(dbRoot # NoKey /\ db[dbRoot] = NoRec)
     IN /\ ids' = [ids EXCEPT
                     !.idCounter = IF ids.dbCounter = 0 THEN 1 ELSE ids.dbCounter,
                     !.staged = 0, !.newId = 0, !.loaded = found,
                     !.mine = {}]
        /\ rootNode' = IF found THEN maybeLoad(db, dbRoot) ELSE Null
  /\ lock' = FALSE
  /\ proc' = [p \in Procs |-> Idle]
  /\ UNCHANGED <<db, dbRoot, last, prf, stk, bat, mk>>

NextIds ==
  \/ IdCall(SeqProc)
  \/ Tree_put(SeqProc)
  \/ Tree_del(SeqProc)
  \/ IdTree_put_body(SeqProc)
  \/ Tree_del_body(SeqProc)
  \/ IdSetRoot(SeqProc)
  \/ IdCommit(SeqProc)
  \/ IdCommit_fail(SeqProc)
  \/ releaseLock(SeqProc)
  \/ Settle(SeqProc)
  \/ Reopen

SpecIds == Init /\ [][NextIds]_vars

\* a node is constructed without an ID of its own
Allocates == ids.newId = 0 /\ ids'.newId # 0
\* no two persisted records have the same ID
IdsDistinct(s) ==
  \A j, k \in Keys : j # k /\ s.idOf[j] # 0 => s.idOf[j] # s.idOf[k]
\* the persisted ':idCounter' is greater than the ID of every persisted record
CounterAhead(s) == \A k \in Keys : s.idOf[k] # 0 => s.dbCounter > s.idOf[k]

\* C34 (as stated): a newly constructed node gets an ID greater than every
\* ID assigned before, also before the tree was reopened; no two nodes
\* share an ID; the persisted ':idCounter' is greater than the ID of every
\* persisted record
C34_IdsNeverReused ==
  [][ /\ Allocates => \A a \in ids.assigned : ids'.newId > a
      /\ IdsDistinct(ids') /\ CounterAhead(ids') ]_vars

\* C34 (amended): a newly constructed node gets an ID greater than every ID
\* the open tree assigned before and than the ID of every record ever
\* persisted; no two persisted records share an ID; the persisted
\* ':idCounter' is greater than the ID of every record ever persisted
C34_PersistedIdsNeverReused ==
  [][ /\ Allocates => \A a \in ids.mine \cup ids.persisted : ids'.newId > a
      /\ IdsDistinct(ids')
      /\ \A a \in ids'.persisted : ids'.dbCounter > a ]_vars

\* a tree reopened over persisted records constructs its first node
C34_Witness ==
  /\ ids.newId # 0 /\ ids.mine = {ids.newId}
  /\ Cardinality({k \in Keys : ids.idOf[k] # 0}) >= 2


====
